---- MODULE Spec2Model ----
(***************************************************************************)
(* The BER decoder of pyasn1, pyasn1/codec/ber/decoder.py: the stream      *)
(* cursor helpers, the value decoders, the Decoder.__call__ state machine  *)
(* and the decode() generator that drives it over a substrate.             *)
(*                                                                         *)
(* Python objects are records of one shape (Blank); a call returns a       *)
(* record [st, ret, err, c, log]: st = "ok" with the returned object ret,  *)
(* or st = "raise" with the exception class err; c is the cursor after the *)
(* call and log the engine events of the call, the call itself first.      *)
(***************************************************************************)
EXTENDS Integers, Sequences, FiniteSets

Min(a, b) == IF a <= b THEN a ELSE b
Max(a, b) == IF a >= b THEN a ELSE b

(***************************************************************************)
(* Stream cursor: io.BytesIO over the substrate octets, with the           *)
(* _marked_position attribute the engine stores on it.                     *)
(***************************************************************************)
\* The record also carries the engine the calls run on (its Tag and TagSet
\* caches, dicts kept as sets of items, and its configuration) and the depth
\* of the engine calls in progress.
NewEngine ==
    [tagCache |-> {}, tagSetCache |-> {},
     supportIndefLength |-> TRUE, defaultErrorState |-> "stErrorCondition"]

BytesIO(octets, engine) ==
    [data |-> octets, pos |-> 0, mark |-> 0, engine |-> engine, depth |-> 0]

\* a fresh stream over octets, read by the engine of cursor c
asSeekableStream(octets, c) == [BytesIO(octets, c.engine) EXCEPT !.depth = c.depth]

tell(c) == c.pos

\* substrate.read(n): the next n octets, fewer at the end of the stream
\* (all the rest when n is negative)
readOctets(c, n) ==
    IF n < 0 THEN SubSeq(c.data, c.pos + 1, Len(c.data))
    ELSE SubSeq(c.data, c.pos + 1, Min(c.pos + n, Len(c.data)))

\* the cursor after substrate.read(n)
afterRead(c, n) ==
    IF n < 0 THEN [c EXCEPT !.pos = Len(c.data)]
    ELSE [c EXCEPT !.pos = Min(c.pos + n, Len(c.data))]

\* substrate.seek(p, os.SEEK_SET)
seekSet(c, p) == [c EXCEPT !.pos = p]

\* substrate.seek(d, os.SEEK_CUR): BytesIO clamps a negative target to 0
seekCur(c, d) == [c EXCEPT !.pos = Max(0, c.pos + d)]

endOfStream(c) == tell(c) = Len(c.data)

(***************************************************************************)
(* pyasn1.type.tag: Tag and TagSet.  Tag equality and hashing use          *)
(* (tagClass, tagId) only; TagSet equality uses the super tags only.       *)
(***************************************************************************)
tagClassUniversal == 0
tagClassApplication == 64
tagClassContext == 128
tagClassPrivate == 192
tagFormatSimple == 0
tagFormatConstructed == 32

Tag(tagClass, tagFormat, tagId) ==
    [tagClass |-> tagClass, tagFormat |-> tagFormat, tagId |-> tagId]

TagEq(a, b) == a.tagClass = b.tagClass /\ a.tagId = b.tagId

\* baseTag is a sequence of zero or one Tag (TagSet() has none)
TagSet(baseTag, superTags) == [baseTag |-> baseTag, superTags |-> superTags]

TagSetEq(a, b) ==
    /\ Len(a.superTags) = Len(b.superTags)
    /\ \A i \in 1..Len(a.superTags) : TagEq(a.superTags[i], b.superTags[i])

\* lastTag + tagSet  (TagSet.__radd__)
TagSetRadd(superTag, tagSet) ==
    TagSet(tagSet.baseTag, <<superTag>> \o tagSet.superTags)

\* tagSet + superTag  (TagSet.__add__)
TagSetAdd(tagSet, superTag) ==
    TagSet(tagSet.baseTag, Append(tagSet.superTags, superTag))

\* tagSet[:1]
TagSetFirst(tagSet) ==
    TagSet(tagSet.baseTag, SubSeq(tagSet.superTags, 1, Min(1, Len(tagSet.superTags))))

\* TagSet.tagExplicitly: the wrapping tag is always constructed
tagExplicitly(tagSet, superTag) ==
    TagSetAdd(tagSet, Tag(superTag.tagClass, tagFormatConstructed, superTag.tagId))

\* TagSet.tagImplicitly: replaces the last super tag, keeping its format
tagImplicitly(tagSet, superTag) ==
    IF tagSet.superTags = <<>> THEN TagSet(tagSet.baseTag, <<superTag>>)
    ELSE LET n == Len(tagSet.superTags)
             t == Tag(superTag.tagClass, tagSet.superTags[n].tagFormat, superTag.tagId)
         IN  TagSet(tagSet.baseTag, SubSeq(tagSet.superTags, 1, n - 1) \o <<t>>)

\* the tag set of a universal type: initTagSet(Tag(universal, format, id))
UnivTagSet(tagFormat, tagId) ==
    LET t == Tag(tagClassUniversal, tagFormat, tagId) IN TagSet(<<t>>, <<t>>)

EmptyTagSet == TagSet(<<>>, <<>>)

(***************************************************************************)
(* Python objects.  kind is "asn1" (a pyasn1 type or value object),        *)
(* "tagmap" (tagmap.TagMap), "eoo" (eoo.endOfOctets), "None", "noValue",   *)
(* "bytes" (raw octets), "tuple" or "int".                                 *)
(***************************************************************************)
Blank ==
    [kind |-> "None", typeId |-> "", tagSet |-> EmptyTagSet,
     isValue |-> FALSE, val |-> <<>>,
     namedTypes |-> <<>>, componentType |-> <<>>, components |-> <<>>,
     presentTypes |-> <<>>, skipTypes |-> <<>>, defaultType |-> <<>>]

None == Blank
noValue == [Blank EXCEPT !.kind = "noValue"]
Bytes(octets) == [Blank EXCEPT !.kind = "bytes", !.val = octets]
PyInt(n) == [Blank EXCEPT !.kind = "int", !.val = <<n>>]
PyTuple(items) == [Blank EXCEPT !.kind = "tuple", !.components = items]

\* eoo.endOfOctets: EndOfOctets(), tag set (universal, simple, 0)
endOfOctets ==
    [Blank EXCEPT !.kind = "eoo", !.typeId = "EndOfOctets",
                  !.tagSet = UnivTagSet(tagFormatSimple, 0), !.isValue = TRUE]

\* a schema object of a type: no value yet
Asn1Type(typeId, tagSet) ==
    [Blank EXCEPT !.kind = "asn1", !.typeId = typeId, !.tagSet = tagSet]

(***************************************************************************)
(* pyasn1.type.tagmap.TagMap: presentTypes and skipTypes are sequences of   *)
(* [key |-> TagSet, obj |-> object]; defaultType holds zero or one object.  *)
(***************************************************************************)
TagMap(presentTypes, skipTypes, defaultType) ==
    [Blank EXCEPT !.kind = "tagmap", !.presentTypes = presentTypes,
                  !.skipTypes = skipTypes, !.defaultType = defaultType]

HasKey(pairs, tagSet) == \E i \in 1..Len(pairs) : TagSetEq(pairs[i].key, tagSet)

\* dict lookup: the entry set last for an equal key
Lookup(pairs, tagSet) ==
    LET hits == {i \in 1..Len(pairs) : TagSetEq(pairs[i].key, tagSet)}
    IN  pairs[CHOOSE i \in hits : \A j \in hits : j <= i].obj

\* dict update: pairs[key] = obj
Update(pairs, key, obj) ==
    IF HasKey(pairs, key)
    THEN [i \in 1..Len(pairs) |->
            IF TagSetEq(pairs[i].key, key) THEN [key |-> pairs[i].key, obj |-> obj]
            ELSE pairs[i]]
    ELSE Append(pairs, [key |-> key, obj |-> obj])

\* tagSet in tagMap  (TagMap.__contains__)
TagMapContains(tagMap, tagSet) ==
    \/ HasKey(tagMap.presentTypes, tagSet)
    \/ tagMap.defaultType # <<>> /\ ~HasKey(tagMap.skipTypes, tagSet)

\* tagMap[tagSet]  (TagMap.__getitem__): [exc, obj] with exc "" on success
TagMapGet(tagMap, tagSet) ==
    IF HasKey(tagMap.presentTypes, tagSet)
    THEN [exc |-> "", obj |-> Lookup(tagMap.presentTypes, tagSet)]
    ELSE IF tagMap.defaultType = <<>> THEN [exc |-> "KeyError", obj |-> None]
    ELSE IF HasKey(tagMap.skipTypes, tagSet) THEN [exc |-> "PyAsn1Error", obj |-> None]
    ELSE [exc |-> "", obj |-> tagMap.defaultType[1]]

(***************************************************************************)
(* pyasn1.type.univ, char: the schema objects the decoder is guided by.    *)
(***************************************************************************)
Integer == Asn1Type("Integer", UnivTagSet(tagFormatSimple, 2))
Boolean == Asn1Type("Boolean", UnivTagSet(tagFormatSimple, 1))
BitString == Asn1Type("BitString", UnivTagSet(tagFormatSimple, 3))
OctetString == Asn1Type("OctetString", UnivTagSet(tagFormatSimple, 4))
Null == Asn1Type("Null", UnivTagSet(tagFormatSimple, 5))
ObjectIdentifier == Asn1Type("ObjectIdentifier", UnivTagSet(tagFormatSimple, 6))
Real == Asn1Type("Real", UnivTagSet(tagFormatSimple, 9))
Enumerated == Asn1Type("Enumerated", UnivTagSet(tagFormatSimple, 10))
UTF8String == Asn1Type("UTF8String", UnivTagSet(tagFormatSimple, 12))
Any == Asn1Type("Any", EmptyTagSet)

NamedType(name, asn1Object) ==
    [name |-> name, asn1Object |-> asn1Object, isOptional |-> FALSE,
     isDefaulted |-> FALSE, openType |-> <<>>]
OptionalNamedType(name, asn1Object) ==
    [NamedType(name, asn1Object) EXCEPT !.isOptional = TRUE]
DefaultedNamedType(name, asn1Object) ==
    [NamedType(name, asn1Object) EXCEPT !.isDefaulted = TRUE]
\* opentype.OpenType(name, typeMap): typeMap a sequence of [gov |-> Int, obj |-> object]
OpenNamedType(name, asn1Object, governor, typeMap) ==
    [NamedType(name, asn1Object) EXCEPT
        !.openType = <<[name |-> governor, typeMap |-> typeMap]>>]

Sequence(namedTypes) ==
    [Asn1Type("Sequence", UnivTagSet(tagFormatConstructed, 16)) EXCEPT
        !.namedTypes = namedTypes]
Set(namedTypes) ==
    [Asn1Type("Set", UnivTagSet(tagFormatConstructed, 17)) EXCEPT
        !.namedTypes = namedTypes]
Choice(namedTypes) ==
    [Asn1Type("Choice", EmptyTagSet) EXCEPT !.namedTypes = namedTypes]
\* componentType holds zero or one schema object
SequenceOf(componentType) ==
    [Asn1Type("SequenceOf", UnivTagSet(tagFormatConstructed, 16)) EXCEPT
        !.componentType = componentType]
SetOf(componentType) ==
    [Asn1Type("SetOf", UnivTagSet(tagFormatConstructed, 17)) EXCEPT
        !.componentType = componentType]

\* obj.subtype(explicitTag=t), obj.subtype(implicitTag=t)
ExplicitlyTagged(obj, t) == [obj EXCEPT !.tagSet = tagExplicitly(obj.tagSet, t)]
ImplicitlyTagged(obj, t) == [obj EXCEPT !.tagSet = tagImplicitly(obj.tagSet, t)]

IsAsn1Item(obj) == obj.kind \in {"asn1", "eoo"}
IsSimpleType(obj) ==
    obj.kind = "asn1" /\
    obj.typeId \notin {"Sequence", "Set", "SequenceOf", "SetOf", "Choice"}

\* obj.clone(value) of a simple type; obj.clone(value, tagSet=tagSet)
clone(obj, value) == [obj EXCEPT !.isValue = TRUE, !.val = value]
cloneTagged(obj, value, tagSet) ==
    [obj EXCEPT !.isValue = TRUE, !.val = value, !.tagSet = tagSet]
\* obj.clone() followed by obj.clear() of a constructed type
cloneCleared(obj) == [obj EXCEPT !.isValue = FALSE, !.val = <<>>, !.components = <<>>]

RECURSIVE effectiveTagSet(_)
\* obj.effectiveTagSet: an untagged CHOICE answers with its chosen component
effectiveTagSet(obj) ==
    IF obj.typeId = "Choice" /\ obj.tagSet.superTags = <<>> /\ obj.components # <<>>
    THEN effectiveTagSet(obj.components[1])
    ELSE obj.tagSet

RECURSIVE computeTagMap(_, _, _)
RECURSIVE tagMapOf(_)
\* NamedTypes.tagMap / tagMapUnique over the named types from position i on:
\* the present, skip and default types of every component's own tag map
computeTagMap(namedTypes, i, acc) ==
    IF i > Len(namedTypes) THEN acc
    ELSE LET tm == tagMapOf(namedTypes[i].asn1Object)
             RECURSIVE put(_, _)
             put(pairs, k) ==
                 IF k > Len(tm.presentTypes) THEN pairs
                 ELSE put(Update(pairs, tm.presentTypes[k].key,
                                 namedTypes[i].asn1Object), k + 1)
         IN  computeTagMap(namedTypes, i + 1,
                 TagMap(put(acc.presentTypes, 1),
                        acc.skipTypes \o tm.skipTypes,
                        IF acc.defaultType = <<>> THEN tm.defaultType
                        ELSE acc.defaultType))

\* obj.tagMap
tagMapOf(obj) ==
    IF obj.typeId = "Any"
    THEN TagMap(<<[key |-> obj.tagSet, obj |-> obj]>>,
                <<[key |-> endOfOctets.tagSet, obj |-> endOfOctets]>>, <<obj>>)
    ELSE IF obj.typeId = "Choice" /\ obj.tagSet.superTags = <<>>
    THEN computeTagMap(obj.namedTypes, 1, TagMap(<<>>, <<>>, <<>>))
    ELSE TagMap(<<[key |-> obj.tagSet, obj |-> obj]>>, <<>>, <<>>)

tagMapUnique(namedTypes) == computeTagMap(namedTypes, 1, TagMap(<<>>, <<>>, <<>>))

\* Set.componentTagMap
componentTagMap(obj) == tagMapUnique(obj.namedTypes)

hasOptionalOrDefault(namedTypes) ==
    \E i \in 1..Len(namedTypes) :
        namedTypes[i].isOptional \/ namedTypes[i].isDefaulted

hasOpenTypes(namedTypes) ==
    \E i \in 1..Len(namedTypes) : namedTypes[i].openType # <<>>

\* positions are 0-based, as in the source
requiredComponents(namedTypes) ==
    {i - 1 : i \in {j \in 1..Len(namedTypes) :
                      ~namedTypes[j].isOptional /\ ~namedTypes[j].isDefaulted}}

\* NamedTypes.__computeAmbiguousTypes: the named types from idx up to and
\* including the first that is neither optional nor defaulted
ambiguousTypes(namedTypes, idx) ==
    LET stops == {j \in (idx + 1)..Len(namedTypes) :
                     ~namedTypes[j].isOptional /\ ~namedTypes[j].isDefaulted}
        last == IF stops = {} THEN Len(namedTypes)
                ELSE CHOOSE j \in stops : \A k \in stops : j <= k
    IN  SubSeq(namedTypes, idx + 1, last)

\* NamedTypes.getTagMapNearPosition(idx)
getTagMapNearPosition(namedTypes, idx) ==
    computeTagMap(ambiguousTypes(namedTypes, idx), 1, TagMap(<<>>, <<>>, <<>>))

\* NamedTypes.getPositionByType(tagSet): [exc, idx]; the map holds the present
\* types of every component's tag map
getPositionByType(namedTypes, tagSet) ==
    LET hits == {i \in 1..Len(namedTypes) :
                    HasKey(tagMapOf(namedTypes[i].asn1Object).presentTypes, tagSet)}
    IN  IF hits = {} THEN [exc |-> "PyAsn1Error", idx |-> 0]
        ELSE [exc |-> "", idx |-> (CHOOSE i \in hits : \A j \in hits : i <= j) - 1]

\* NamedTypes.getPositionNearType(tagSet, idx)
getPositionNearType(namedTypes, tagSet, idx) ==
    LET r == getPositionByType(ambiguousTypes(namedTypes, idx), tagSet)
    IN  [exc |-> r.exc, idx |-> idx + r.idx]

(***************************************************************************)
(* Results of calls.                                                       *)
(***************************************************************************)
Ok(ret, c, log) == [st |-> "ok", ret |-> ret, err |-> "", c |-> c, log |-> log]
Raise(err, c, log) == [st |-> "raise", ret |-> None, err |-> err, c |-> c, log |-> log]

\* keyword arguments of a call; fullPosition holds zero or one position
NoOptions ==
    [allowEoo |-> FALSE, decodeOpenTypes |-> FALSE, openTypes |-> <<>>,
     recursiveFlag |-> TRUE, native |-> FALSE, fullPosition |-> <<>>]

(***************************************************************************)
(* Octet arithmetic.                                                       *)
(***************************************************************************)
RECURSIVE fromBytesUnsigned(_)
\* integer.from_bytes(octets): big-endian unsigned
fromBytesUnsigned(octets) ==
    IF octets = <<>> THEN 0
    ELSE fromBytesUnsigned(SubSeq(octets, 1, Len(octets) - 1)) * 256
         + octets[Len(octets)]

RECURSIVE pow2(_)
pow2(n) == IF n <= 0 THEN 1 ELSE 2 * pow2(n - 1)

RECURSIVE from_bytes(_)
\* from_bytes(octets, signed=True): big-endian two's complement; the first
\* octet carries the sign
from_bytes(octets) ==
    IF octets = <<>> THEN 0
    ELSE IF Len(octets) = 1
    THEN IF octets[1] >= 128 THEN octets[1] - 256 ELSE octets[1]
    ELSE from_bytes(SubSeq(octets, 1, Len(octets) - 1)) * 256 + octets[Len(octets)]

\* the eight bits of an octet, most significant first
OctetBits(o) == [i \in 1..8 |-> (o \div pow2(8 - i)) % 2]

RECURSIVE BitsOf(_)
BitsOf(octets) ==
    IF octets = <<>> THEN <<>>
    ELSE OctetBits(octets[1]) \o BitsOf(Tail(octets))

\* a conversion that keeps the padding bits
fromOctetStringPadded(octets, prepend, padding) == prepend \o BitsOf(octets)

\* BitString.fromOctetString(octets, internalFormat=True, prepend, padding):
\* the bits of the octets without the last padding bits, after the prepended
fromOctetString(octets, prepend, padding) ==
    LET bits == BitsOf(octets)
    IN  prepend \o SubSeq(bits, 1, Len(bits) - padding)

(***************************************************************************)
(* Container values (pyasn1.type.univ).  These answer [exc, obj]: exc is   *)
(* "" and obj the container after the call, or exc names the exception.    *)
(***************************************************************************)
\* componentType.clone(value=value) of a value that is no ASN.1 object
castValue(componentType, value) ==
    IF value.kind = "bytes" /\ componentType.typeId \notin {"Integer", "Boolean", "Enumerated", "Null", "Real", "ObjectIdentifier", "BitString"}
    THEN [exc |-> "", obj |-> clone(componentType, value.val)]
    ELSE IF value.kind = "int" /\ componentType.typeId \in {"Integer", "Boolean", "Enumerated"}
    THEN [exc |-> "", obj |-> clone(componentType, value.val)]
    ELSE IF value.kind = "bytes" THEN [exc |-> "ValueError", obj |-> None]
    ELSE [exc |-> "TypeError", obj |-> None]

\* SequenceAndSetBase.setComponentByPosition(idx, value, ...), idx 0-based
setRecordComponent(obj, idx, value) ==
    LET n == Len(obj.namedTypes)
        grown == IF idx >= Len(obj.components) /\ n > 0
                 THEN [i \in 1..n |-> IF i <= Len(obj.components)
                                      THEN obj.components[i] ELSE noValue]
                 ELSE obj.components
        cast == IF IsAsn1Item(value) THEN [exc |-> "", obj |-> value]
                ELSE IF n = 0 \/ idx >= n THEN [exc |-> "PyAsn1Error", obj |-> None]
                ELSE IF ~IsSimpleType(obj.namedTypes[idx + 1].asn1Object)
                THEN [exc |-> "PyAsn1Error", obj |-> None]
                ELSE castValue(obj.namedTypes[idx + 1].asn1Object, value)
    IN  IF idx >= Len(obj.components) /\ n > 0 /\ n < idx
        THEN [exc |-> "PyAsn1Error", obj |-> obj]
        ELSE IF cast.exc # "" THEN [exc |-> cast.exc, obj |-> obj]
        ELSE IF idx < Len(grown)
        THEN [exc |-> "", obj |-> [obj EXCEPT !.isValue = TRUE,
                                              !.components = [grown EXCEPT ![idx + 1] = cast.obj]]]
        ELSE IF n > 0 THEN [exc |-> "IndexError", obj |-> obj]
        ELSE IF idx = Len(grown)
        THEN [exc |-> "", obj |-> [obj EXCEPT !.isValue = TRUE,
                                              !.components = Append(grown, cast.obj)]]
        ELSE [exc |-> "PyAsn1Error", obj |-> obj]

\* SequenceOfAndSetOfBase.setComponentByPosition(idx, value, ...)
setCollectionComponent(obj, idx, value) ==
    LET cast == IF IsAsn1Item(value) THEN [exc |-> "", obj |-> value]
                ELSE IF obj.componentType # <<>> /\ IsSimpleType(obj.componentType[1])
                THEN castValue(obj.componentType[1], value)
                ELSE [exc |-> "PyAsn1Error", obj |-> None]
    IN  IF cast.exc # "" THEN [exc |-> cast.exc, obj |-> obj]
        ELSE IF idx < Len(obj.components)
        THEN [exc |-> "", obj |-> [obj EXCEPT !.isValue = TRUE,
                                              !.components[idx + 1] = cast.obj]]
        ELSE IF idx = Len(obj.components)
        THEN [exc |-> "", obj |-> [obj EXCEPT !.isValue = TRUE,
                                              !.components = Append(obj.components, cast.obj)]]
        ELSE [exc |-> "PyAsn1Error", obj |-> obj]

\* asn1Object.setComponentByPosition(idx, value, ...)
setComponentByPosition(obj, idx, value) ==
    IF obj.typeId \in {"SequenceOf", "SetOf"}
    THEN setCollectionComponent(obj, idx, value)
    ELSE setRecordComponent(obj, idx, value)

\* Choice.setComponentByType(tagSet, value, ..., innerFlag=False): the chosen
\* alternative is the only component, val holds its position
setComponentByType(obj, tagSet, value) ==
    LET p == getPositionByType(obj.namedTypes, tagSet)
    IN  IF p.exc # "" THEN [exc |-> p.exc, obj |-> obj]
        ELSE [exc |-> "", obj |-> [obj EXCEPT !.isValue = TRUE, !.val = <<p.idx>>,
                                              !.components = <<value>>]]

\* asn1Object.getComponentByName(name): the component, noValue when unset
getComponentByName(obj, name) ==
    LET hits == {i \in 1..Len(obj.namedTypes) : obj.namedTypes[i].name = name}
        i == CHOOSE j \in hits : TRUE
    IN  IF hits = {} \/ i > Len(obj.components) THEN noValue ELSE obj.components[i]

\* asn1Object.getComponentByPosition(idx)
getComponentByPosition(obj, idx) ==
    IF idx < Len(obj.components) THEN obj.components[idx + 1] ELSE noValue

(***************************************************************************)
(* The decoders of the registry (class names) and their protoComponent.    *)
(***************************************************************************)
\* the character string and useful types decoded as OCTET STRING
StringTypes ==
    <<[name |-> "UTF8String", id |-> 12], [name |-> "NumericString", id |-> 18],
      [name |-> "PrintableString", id |-> 19], [name |-> "TeletexString", id |-> 20],
      [name |-> "VideotexString", id |-> 21], [name |-> "IA5String", id |-> 22],
      [name |-> "GraphicString", id |-> 25], [name |-> "VisibleString", id |-> 26],
      [name |-> "GeneralString", id |-> 27], [name |-> "UniversalString", id |-> 28],
      [name |-> "BMPString", id |-> 30], [name |-> "ObjectDescriptor", id |-> 7],
      [name |-> "GeneralizedTime", id |-> 24], [name |-> "UTCTime", id |-> 23]>>

StringTypeNames == {StringTypes[i].name : i \in 1..Len(StringTypes)}
StringTypeIds == {StringTypes[i].id : i \in 1..Len(StringTypes)}
StringTypeOfId(id) ==
    StringTypes[CHOOSE i \in 1..Len(StringTypes) : StringTypes[i].id = id].name
StringTypeId(name) ==
    StringTypes[CHOOSE i \in 1..Len(StringTypes) : StringTypes[i].name = name].id

\* a decoder is named by its class; XDecoder of a string type X
DecoderOfType(name) == [cls |-> "OctetStringDecoder", proto |-> name]
Dec(cls) == [cls |-> cls, proto |-> ""]
NoDecoder == Dec("None")

\* decoder.protoComponent
protoComponent(d) ==
    CASE d.cls = "ExplicitTagDecoder" -> clone(Any, <<>>)
      [] d.cls = "IntegerDecoder" -> clone(Integer, <<0>>)
      [] d.cls = "BooleanDecoder" -> clone(Boolean, <<0>>)
      [] d.cls = "BitStringDecoder" -> clone(BitString, <<>>)
      [] d.cls = "OctetStringDecoder" /\ d.proto = "" -> clone(OctetString, <<>>)
      [] d.cls = "OctetStringDecoder" /\ d.proto # "" ->
            Asn1Type(d.proto, UnivTagSet(tagFormatSimple, StringTypeId(d.proto)))
      [] d.cls = "NullDecoder" -> clone(Null, <<>>)
      [] d.cls = "ObjectIdentifierDecoder" -> clone(ObjectIdentifier, <<>>)
      [] d.cls = "RealDecoder" -> Real
      [] d.cls = "SequenceDecoder" -> Sequence(<<>>)
      [] d.cls = "SequenceOfDecoder" -> SequenceOf(<<>>)
      [] d.cls = "SetDecoder" -> Set(<<>>)
      [] d.cls = "SetOfDecoder" -> SetOf(<<>>)
      [] d.cls = "ChoiceDecoder" -> Choice(<<>>)
      [] d.cls = "AnyDecoder" -> Any
      [] OTHER -> None

protoRecordComponent(d) ==
    IF d.cls \in {"SequenceOrSequenceOfDecoder", "SequenceDecoder", "SequenceOfDecoder"}
    THEN Sequence(<<>>) ELSE Set(<<>>)

protoSequenceComponent(d) ==
    IF d.cls \in {"SequenceOrSequenceOfDecoder", "SequenceDecoder", "SequenceOfDecoder"}
    THEN SequenceOf(<<>>) ELSE SetOf(<<>>)

\* tagMap[tagSet] of the module: the decoder, NoDecoder on KeyError
tagMap(tagSet) ==
    IF tagSet.superTags = <<>> THEN Dec("ChoiceDecoder")
    ELSE IF Len(tagSet.superTags) # 1 \/ tagSet.superTags[1].tagClass # tagClassUniversal
    THEN NoDecoder
    ELSE LET id == tagSet.superTags[1].tagId
         IN  CASE id = 2 -> Dec("IntegerDecoder")
               [] id = 1 -> Dec("BooleanDecoder")
               [] id = 3 -> Dec("BitStringDecoder")
               [] id = 4 -> Dec("OctetStringDecoder")
               [] id = 5 -> Dec("NullDecoder")
               [] id = 6 -> Dec("ObjectIdentifierDecoder")
               [] id = 10 -> Dec("IntegerDecoder")
               [] id = 9 -> Dec("RealDecoder")
               [] id = 16 -> Dec("SequenceOrSequenceOfDecoder")
               [] id = 17 -> Dec("SetOrSetOfDecoder")
               [] id \in StringTypeIds -> DecoderOfType(StringTypeOfId(id))
               [] OTHER -> NoDecoder

\* typeMap[typeId] of the module, after the unambiguous types are lifted
typeMap(typeId) ==
    CASE typeId = "Set" -> Dec("SetDecoder")
      [] typeId = "SetOf" -> Dec("SetOfDecoder")
      [] typeId = "Sequence" -> Dec("SequenceDecoder")
      [] typeId = "SequenceOf" -> Dec("SequenceOfDecoder")
      [] typeId = "Choice" -> Dec("ChoiceDecoder")
      [] typeId = "Any" -> Dec("AnyDecoder")
      [] typeId = "Integer" -> Dec("IntegerDecoder")
      [] typeId = "Boolean" -> Dec("BooleanDecoder")
      [] typeId = "BitString" -> Dec("BitStringDecoder")
      [] typeId = "OctetString" -> Dec("OctetStringDecoder")
      [] typeId = "Null" -> Dec("NullDecoder")
      [] typeId = "ObjectIdentifier" -> Dec("ObjectIdentifierDecoder")
      [] typeId = "Real" -> Dec("RealDecoder")
      [] typeId \in StringTypeNames -> DecoderOfType(typeId)
      [] OTHER -> NoDecoder

(***************************************************************************)
(* The states of the engine.                                               *)
(***************************************************************************)
stDecodeTag == 0
stDecodeLength == 1
stGetValueDecoder == 2
stGetValueDecoderByAsn1Spec == 3
stGetValueDecoderByTag == 4
stTryAsExplicitTag == 5
stDecodeValue == 6
stDumpRawValue == 7
stErrorCondition == 8
stStop == 9

RECURSIVE decodeFun(_, _, _, _, _, _, _)

(***************************************************************************)
(* AbstractSimpleDecoder                                                   *)
(***************************************************************************)
\* AbstractSimpleDecoder.substrateCollector(asn1Object, substrate, length)
substrateCollector(asn1Object, c, length) ==
    Ok(Bytes(readOctets(c, length)), afterRead(c, length), <<>>)

\* a substrateFun of the caller: it reads nothing and returns what it was
\* handed, the prototype, the position of the substrate and the length
callerHook(asn1Object, c, length) ==
    Ok([kind |-> "Hooked", asn1Object |-> asn1Object, pos |-> tell(c), length |-> length],
       c, <<>>)

\* substrateFun(asn1Object, substrate, length) of the function passed on:
\* the collector, the caller's function, or the lambda of the engine for
\* recursiveFlag=False, (a, b[:c]), whose slice of a stream raises TypeError
callSubstrateFun(substrateFun, asn1Object, c, length) ==
    IF substrateFun = "substrateCollector"
    THEN substrateCollector(asn1Object, c, length)
    ELSE IF substrateFun = "hook"
    THEN callerHook(asn1Object, c, length)
    ELSE Raise("TypeError", c, <<>>)

\* decoder._createComponent(asn1Spec, tagSet, value, **options); value is a
\* Python value (PyInt, Bytes) or noValue.  BooleanDecoder first maps the
\* value to 1 or 0.
_createComponent(d, asn1Spec, tagSet, value, options) ==
    LET create(v, proto) ==
            IF options.native THEN v
            ELSE IF asn1Spec.kind = "None"
            THEN IF v.kind = "noValue" THEN [proto EXCEPT !.tagSet = tagSet]
                 ELSE cloneTagged(proto, v.val, tagSet)
            ELSE IF v.kind = "noValue" THEN asn1Spec
            ELSE clone(asn1Spec, v.val)
    IN  create(IF d.cls = "BooleanDecoder"
               THEN PyInt(IF value.val # <<0>> THEN 1 ELSE 0) ELSE value,
               protoComponent(d))

\* component + header: the fragments joined in the reverse order
ConcatReversed(header, component) ==
    IF component.kind = "bytes" /\ header.kind = "bytes"
    THEN [exc |-> "", obj |-> Bytes(component.val \o header.val)]
    ELSE [exc |-> "TypeError", obj |-> header]

\* header += component
Concat(header, component) ==
    IF component.kind = "bytes" /\ header.kind = "bytes"
    THEN [exc |-> "", obj |-> Bytes(header.val \o component.val)]
    ELSE IF component.kind \in {"bytes", "asn1"} /\ header.kind \in {"bytes", "asn1"}
            /\ (component.kind = "asn1" =>
                    component.typeId \in {"OctetString", "Any"} \cup StringTypeNames)
            /\ (header.kind = "asn1" =>
                    header.typeId \in {"OctetString", "Any"} \cup StringTypeNames)
    THEN [exc |-> "",
          obj |-> clone(IF header.kind = "asn1" THEN header ELSE component,
                        header.val \o component.val)]
    ELSE [exc |-> "TypeError", obj |-> header]

(***************************************************************************)
(* ExplicitTagDecoder                                                      *)
(***************************************************************************)
ExplicitTagDecoder_valueDecoder(d, c, asn1Spec, tagSet, length, state, substrateFun, options) ==
    IF substrateFun # "None"
    THEN callSubstrateFun(substrateFun,
             _createComponent(d, asn1Spec, tagSet, Bytes(<<>>), options), c, length)
    ELSE decodeFun(c, asn1Spec, <<tagSet>>, <<length>>, stDecodeTag, "None", options)

ExplicitTagDecoder_indefLenValueDecoder(d, c, asn1Spec, tagSet, length, state, substrateFun, options) ==
    LET afterMarker(value, eooMarker) ==
            IF eooMarker.st = "raise"
            THEN Raise(eooMarker.err, eooMarker.c, value.log \o eooMarker.log)
            ELSE IF eooMarker.ret.kind = "eoo"
            THEN Ok(value.ret, eooMarker.c, value.log \o eooMarker.log)
            ELSE Raise("PyAsn1Error", eooMarker.c, value.log \o eooMarker.log)
        afterValue(value) ==
            IF value.st = "raise" THEN value
            ELSE afterMarker(value,
                     decodeFun(value.c, None, <<>>, <<>>, stDecodeTag, "None",
                               [options EXCEPT !.allowEoo = TRUE]))
    IN  IF substrateFun # "None"
        THEN callSubstrateFun(substrateFun,
                 _createComponent(d, asn1Spec, tagSet, Bytes(<<>>), options), c, length)
        ELSE afterValue(decodeFun(c, asn1Spec, <<tagSet>>, <<length>>, stDecodeTag,
                                  "None", options))

(***************************************************************************)
(* IntegerDecoder, BooleanDecoder                                          *)
(***************************************************************************)
\* AbstractDecoder.indefLenValueDecoder: the decoders of the primitive types
\* have no other
AbstractDecoder_indefLenValueDecoder(d, c, asn1Spec, tagSet, length, state, substrateFun, options) ==
    Raise("PyAsn1Error", c, <<>>)

\* a decoder that takes the content of any tag form for an INTEGER
IntegerDecoder_anyForm(d, c, asn1Spec, tagSet, length, state, substrateFun, options) ==
    Ok(_createComponent(d, asn1Spec, tagSet, PyInt(from_bytes(readOctets(c, length))),
                        options),
       afterRead(c, length), <<>>)

\* a decoder that reads the content octets as an unsigned number
IntegerDecoder_unsigned(d, c, asn1Spec, tagSet, length, state, substrateFun, options) ==
    IF tagSet.superTags[1].tagFormat # tagFormatSimple
    THEN Raise("PyAsn1Error", c, <<>>)
    ELSE Ok(_createComponent(d, asn1Spec, tagSet,
                             PyInt(fromBytesUnsigned(readOctets(c, length))), options),
            afterRead(c, length), <<>>)

\* IntegerDecoder.valueDecoder; BooleanDecoder's is the same, the value
\* mapped to 1 or 0 by _createComponent
IntegerDecoder_valueDecoder(d, c, asn1Spec, tagSet, length, state, substrateFun, options) ==
    IF tagSet.superTags[1].tagFormat # tagFormatSimple
    THEN Raise("PyAsn1Error", c, <<>>)
    ELSE IF endOfStream(c) \/ length = 0
    THEN Ok(_createComponent(d, asn1Spec, tagSet, PyInt(0), options), c, <<>>)
    ELSE Ok(_createComponent(d, asn1Spec, tagSet,
                             PyInt(from_bytes(readOctets(c, length))), options),
            afterRead(c, length), <<>>)

(***************************************************************************)
(* BitStringDecoder                                                        *)
(***************************************************************************)
\* the loop of the constructed form goes on while this holds
BitStringLoopCondition(c, current_position, length) ==
    ~(tell(c) - current_position < length)

\* one fragment added to bitString: [exc, bits]
BitStringAddFragment(bitString, component) ==
    IF component.kind \notin {"bytes", "asn1", "tuple"}
    THEN [exc |-> "TypeError", bits |-> bitString]
    ELSE IF component.kind # "bytes" \/ component.val = <<>>
    THEN [exc |-> "IndexError", bits |-> bitString]
    ELSE IF component.val[1] > 7 THEN [exc |-> "PyAsn1Error", bits |-> bitString]
    ELSE [exc |-> "",
          bits |-> fromOctetString(Tail(component.val), bitString, component.val[1])]

\* the state of a loop over fragments: the value so far, the cursor, the log
Fragments(st, err, value, c, log) ==
    [st |-> st, err |-> err, value |-> value, c |-> c, log |-> log]

\* the fragments decoded, the value is made: what the decoder returns
FragmentsDone(d, asn1Spec, tagSet, options, l) ==
    IF l.st = "raise" THEN Raise(l.err, l.c, l.log)
    ELSE Ok(_createComponent(d, asn1Spec, tagSet, l.value, options), l.c, l.log)

RECURSIVE BitStringDecoder_valueLoop(_, _, _, _, _, _, _)
\* while not substrate.tell() - current_position < length
BitStringDecoder_valueLoop(d, c, current_position, length, bitString, options, log) ==
    LET added(r, a) ==
            IF a.exc # "" THEN Fragments("raise", a.exc, bitString, r.c, log \o r.log)
            ELSE BitStringDecoder_valueLoop(d, r.c, current_position, length, a.bits,
                                            options, log \o r.log)
        decoded(r) ==
            IF r.st = "raise" THEN Fragments("raise", r.err, bitString, r.c, log \o r.log)
            ELSE added(r, BitStringAddFragment(bitString, r.ret))
    IN  IF ~BitStringLoopCondition(c, current_position, length)
        THEN Fragments("ok", "", bitString, c, log)
        ELSE decoded(decodeFun(c, protoComponent(d), <<>>, <<>>, stDecodeTag,
                               "substrateCollector", options))

\* a decoder that takes any count of trailing bits
anyPadding(trailingBits) == FALSE

\* if trailingBits > 7: raise
excessPadding(trailingBits) == trailingBits > 7

BitStringDecoder_valueDecoder(d, c, asn1Spec, tagSet, length, state, substrateFun, options) ==
    LET simple(trailingBits, c1) ==
            IF excessPadding(trailingBits) THEN Raise("PyAsn1Error", c1, <<>>)
            ELSE Ok(_createComponent(d, asn1Spec, tagSet,
                        Bytes(fromOctetString(readOctets(c1, length - 1), <<>>,
                                              trailingBits)), options),
                    afterRead(c1, length - 1), <<>>)
        done(l) == FragmentsDone(d, asn1Spec, tagSet, options,
                                 [l EXCEPT !.value = Bytes(l.value)])
    IN  IF substrateFun # "None"
        THEN callSubstrateFun(substrateFun,
                 _createComponent(d, asn1Spec, tagSet, noValue, options), c, length)
        ELSE IF endOfStream(c) \/ length = 0 THEN Raise("PyAsn1Error", c, <<>>)
        ELSE IF tagSet.superTags[1].tagFormat = tagFormatSimple
        THEN simple(readOctets(c, 1)[1], afterRead(c, 1))
        ELSE done(BitStringDecoder_valueLoop(d, c, tell(c), length, <<>>, options, <<>>))

RECURSIVE BitStringDecoder_elseAlways(_, _, _, _, _)
\* the loop with its else clause run on every exit, the break included
BitStringDecoder_elseAlways(d, c, bitString, options, log) ==
    LET added(r, a) ==
            IF a.exc # "" THEN Fragments("raise", a.exc, bitString, r.c, log \o r.log)
            ELSE BitStringDecoder_elseAlways(d, r.c, a.bits, options, log \o r.log)
        decoded(r) ==
            IF r.st = "raise" THEN Fragments("raise", r.err, bitString, r.c, log \o r.log)
            ELSE IF r.ret.kind = "eoo"
            THEN Fragments("raise", "SubstrateUnderrunError", bitString, r.c, log \o r.log)
            ELSE added(r, BitStringAddFragment(bitString, r.ret))
    IN  IF endOfStream(c) THEN Fragments("raise", "SubstrateUnderrunError", bitString, c, log)
        ELSE decoded(decodeFun(c, protoComponent(d), <<>>, <<>>, stDecodeTag,
                               "substrateCollector", [options EXCEPT !.allowEoo = TRUE]))

RECURSIVE BitStringDecoder_indefLoop(_, _, _, _, _)
\* while not endOfStream(substrate): ... else: raise SubstrateUnderrunError
BitStringDecoder_indefLoop(d, c, bitString, options, log) ==
    LET added(r, a) ==
            IF a.exc # "" THEN Fragments("raise", a.exc, bitString, r.c, log \o r.log)
            ELSE BitStringDecoder_indefLoop(d, r.c, a.bits, options, log \o r.log)
        decoded(r) ==
            IF r.st = "raise" THEN Fragments("raise", r.err, bitString, r.c, log \o r.log)
            ELSE IF r.ret.kind = "eoo" THEN Fragments("ok", "", bitString, r.c, log \o r.log)
            ELSE added(r, BitStringAddFragment(bitString, r.ret))
    IN  IF endOfStream(c) THEN Fragments("raise", "SubstrateUnderrunError", bitString, c, log)
        ELSE decoded(decodeFun(c, protoComponent(d), <<>>, <<>>, stDecodeTag,
                               "substrateCollector", [options EXCEPT !.allowEoo = TRUE]))

BitStringDecoder_indefLenValueDecoder(d, c, asn1Spec, tagSet, length, state, substrateFun, options) ==
    LET done(l) == FragmentsDone(d, asn1Spec, tagSet, options,
                                 [l EXCEPT !.value = Bytes(l.value)])
    IN  IF substrateFun # "None"
        THEN callSubstrateFun(substrateFun,
                 _createComponent(d, asn1Spec, tagSet, noValue, options), c, length)
        ELSE done(BitStringDecoder_indefLoop(d, c, <<>>, options, <<>>))

(***************************************************************************)
(* OctetStringDecoder and the string decoders derived from it              *)
(***************************************************************************)
\* the loop of the constructed form goes on while this holds
OctetStringLoopCondition(c, original_position, length) ==
    tell(c) - original_position < length

RECURSIVE OctetStringDecoder_valueLoop(_, _, _, _, _, _, _)
\* while substrate.tell() - original_position < length
OctetStringDecoder_valueLoop(d, c, original_position, length, header, options, log) ==
    LET added(r, a) ==
            IF a.exc # "" THEN Fragments("raise", a.exc, header, r.c, log \o r.log)
            ELSE OctetStringDecoder_valueLoop(d, r.c, original_position, length, a.obj,
                                              options, log \o r.log)
        decoded(r) ==
            IF r.st = "raise" THEN Fragments("raise", r.err, header, r.c, log \o r.log)
            ELSE added(r, Concat(header, r.ret))
    IN  IF ~OctetStringLoopCondition(c, original_position, length)
        THEN Fragments("ok", "", header, c, log)
        ELSE decoded(decodeFun(c, protoComponent(d), <<>>, <<>>, stDecodeTag,
                               "substrateCollector", options))

OctetStringDecoder_valueDecoder(d, c, asn1Spec, tagSet, length, state, substrateFun, options) ==
    IF substrateFun # "None"
    THEN callSubstrateFun(substrateFun,
             _createComponent(d, asn1Spec, tagSet, noValue, options), c, length)
    ELSE IF tagSet.superTags[1].tagFormat = tagFormatSimple
    THEN Ok(_createComponent(d, asn1Spec, tagSet, Bytes(readOctets(c, length)), options),
            afterRead(c, length), <<>>)
    ELSE FragmentsDone(d, asn1Spec, tagSet, options,
             OctetStringDecoder_valueLoop(d, c, tell(c), length, Bytes(<<>>), options,
                                          <<>>))

RECURSIVE OctetStringDecoder_indefLoop(_, _, _, _, _)
\* while not endOfStream(substrate): ... else: raise SubstrateUnderrunError
OctetStringDecoder_indefLoop(d, c, header, options, log) ==
    LET added(r, a) ==
            IF a.exc # "" THEN Fragments("raise", a.exc, header, r.c, log \o r.log)
            ELSE OctetStringDecoder_indefLoop(d, r.c, a.obj, options, log \o r.log)
        decoded(r) ==
            IF r.st = "raise" THEN Fragments("raise", r.err, header, r.c, log \o r.log)
            ELSE IF r.ret.kind = "eoo" THEN Fragments("ok", "", header, r.c, log \o r.log)
            ELSE added(r, Concat(header, r.ret))
    IN  IF endOfStream(c) THEN Fragments("raise", "SubstrateUnderrunError", header, c, log)
        ELSE decoded(decodeFun(c, protoComponent(d), <<>>, <<>>, stDecodeTag,
                               "substrateCollector", [options EXCEPT !.allowEoo = TRUE]))

OctetStringDecoder_indefLenValueDecoder(d, c, asn1Spec, tagSet, length, state, substrateFun, options) ==
    IF substrateFun # "None" /\ substrateFun # "substrateCollector"
    THEN callSubstrateFun(substrateFun,
             _createComponent(d, asn1Spec, tagSet, noValue, options), c, length)
    ELSE FragmentsDone(d, asn1Spec, tagSet, options,
             OctetStringDecoder_indefLoop(d, c, Bytes(<<>>), options, <<>>))

(***************************************************************************)
(* NullDecoder                                                             *)
(***************************************************************************)
\* a decoder that reads the content and returns NULL whatever it holds
NullDecoder_anyContent(d, c, asn1Spec, tagSet, length, state, substrateFun, options) ==
    Ok(_createComponent(d, asn1Spec, tagSet, Bytes(<<>>), options), afterRead(c, length),
       <<>>)

NullDecoder_valueDecoder(d, c, asn1Spec, tagSet, length, state, substrateFun, options) ==
    IF tagSet.superTags[1].tagFormat # tagFormatSimple
    THEN Raise("PyAsn1Error", c, <<>>)
    ELSE LET head == readOctets(c, length)
         IN  IF head # <<>> THEN Raise("PyAsn1Error", afterRead(c, length), <<>>)
             ELSE Ok(_createComponent(d, asn1Spec, tagSet, Bytes(<<>>), options),
                     afterRead(c, length), <<>>)

(***************************************************************************)
(* ObjectIdentifierDecoder                                                 *)
(***************************************************************************)
\* a tuple of Python integers
PyInts(items) == [Blank EXCEPT !.kind = "tuple", !.val = items]

\* a decoder that lets a sub-identifier start with any octet
neverForbidden(subId) == FALSE

\* elif subId == 128: the octet 0x80 must not start a sub-identifier
forbiddenLead(subId) == subId = 128

RECURSIVE longSubId(_, _, _, _)
\* while nextSubId >= 128: the octets of one sub-identifier, base 128;
\* [exc, subId, index]
longSubId(head, nextSubId, subId, index) ==
    IF nextSubId >= 128
    THEN IF index >= Len(head)
         THEN [exc |-> "SubstrateUnderrunError", subId |-> subId, index |-> index]
         ELSE longSubId(head, head[index + 1], subId * 128 + (nextSubId % 128), index + 1)
    ELSE [exc |-> "", subId |-> subId * 128 + nextSubId, index |-> index]

RECURSIVE subIds(_, _, _)
\* while index < substrateLen: the sub-identifiers of the content; [exc, oid]
subIds(head, index, oid) ==
    LET subId == head[index + 1]
        long(s) == IF s.exc # "" THEN [exc |-> s.exc, oid |-> oid]
                   ELSE subIds(head, s.index, Append(oid, s.subId))
    IN  IF index >= Len(head) THEN [exc |-> "", oid |-> oid]
        ELSE IF subId < 128 THEN subIds(head, index + 1, Append(oid, subId))
        ELSE IF forbiddenLead(subId) THEN [exc |-> "PyAsn1Error", oid |-> oid]
        ELSE long(longSubId(head, subId, 0, index + 1))

\* the first sub-identifier kept as the first arc
unsplitArcs(oid) == [exc |-> "", oid |-> oid]

\* Decode two leading arcs; [exc, oid]
leadingArcs(oid) ==
    IF 0 <= oid[1] /\ oid[1] <= 39 THEN [exc |-> "", oid |-> <<0>> \o oid]
    ELSE IF 40 <= oid[1] /\ oid[1] <= 79
    THEN [exc |-> "", oid |-> <<1, oid[1] - 40>> \o Tail(oid)]
    ELSE IF oid[1] >= 80 THEN [exc |-> "", oid |-> <<2, oid[1] - 80>> \o Tail(oid)]
    ELSE [exc |-> "PyAsn1Error", oid |-> oid]

ObjectIdentifierDecoder_valueDecoder(d, c, asn1Spec, tagSet, length, state, substrateFun, options) ==
    LET head == readOctets(c, length)
        c1 == afterRead(c, length)
        made(a) == IF a.exc # "" THEN Raise(a.exc, c1, <<>>)
                   ELSE Ok(_createComponent(d, asn1Spec, tagSet, PyInts(a.oid), options),
                           c1, <<>>)
        parsed(l) == IF l.exc # "" THEN Raise(l.exc, c1, <<>>)
                     ELSE made(leadingArcs(l.oid))
    IN  IF tagSet.superTags[1].tagFormat # tagFormatSimple
        THEN Raise("PyAsn1Error", c, <<>>)
        ELSE IF head = <<>> THEN Raise("PyAsn1Error", c1, <<>>)
        ELSE parsed(subIds(head, 0, <<>>))

(***************************************************************************)
(* RealDecoder: the tag form and the empty content; the encodings of the   *)
(* non-empty content are not covered                                       *)
(***************************************************************************)
RealDecoder_valueDecoder(d, c, asn1Spec, tagSet, length, state, substrateFun, options) ==
    LET head == readOctets(c, length)
    IN  IF tagSet.superTags[1].tagFormat # tagFormatSimple
        THEN Raise("PyAsn1Error", c, <<>>)
        ELSE IF head = <<>>
        THEN Ok(_createComponent(d, asn1Spec, tagSet, PyInt(0), options),
                afterRead(c, length), <<>>)
        ELSE Raise("NotCovered", afterRead(c, length), <<>>)

(***************************************************************************)
(* UniversalConstructedTypeDecoder: SEQUENCE, SET, SEQUENCE OF, SET OF     *)
(***************************************************************************)
\* a guess by the number of the components instead of their tag sets
SeveralComponents(components) == Len(components) > 1

\* len(componentTypes) > 1: more than one distinct tag set was added
SeveralTagSets(components) ==
    \E i, j \in 1..Len(components) :
        ~TagSetEq(components[i].tagSet, components[j].tagSet)

RECURSIVE setAll(_, _, _)
\* for idx, component in enumerate(components): setComponentByPosition(idx, ...)
\* s is [exc, obj]: the object so far, or the exception that ended the loop
setAll(s, components, idx) ==
    IF s.exc # "" \/ idx >= Len(components) THEN s
    ELSE setAll(setComponentByPosition(s.obj, idx, components[idx + 1]), components,
                idx + 1)

RECURSIVE decodeComponentsLoop(_, _, _, _)
\* the loop of _decodeComponents: until the end of the stream, or an EOO
\* that the options let the nested call return
decodeComponentsLoop(c, components, options, log) ==
    LET out(st, err, r) ==
            [st |-> st, err |-> err, components |-> components, c |-> r.c,
             log |-> log \o r.log]
        decoded(r) ==
            IF r.st = "raise" THEN out("raise", r.err, r)
            ELSE IF r.ret.kind = "eoo" THEN out("ok", "", r)
            ELSE IF r.ret.kind # "asn1" THEN out("raise", "AttributeError", r)
            ELSE decodeComponentsLoop(r.c, Append(components, r.ret), options,
                                      log \o r.log)
    IN  IF endOfStream(c)
        THEN [st |-> "ok", err |-> "", components |-> components, c |-> c, log |-> log]
        ELSE decoded(decodeFun(c, None, <<>>, <<>>, stDecodeTag, "None", options))

\* the object _decodeComponents fills: a SEQUENCE/SET when the components
\* differ in their tag sets, else a SEQUENCE OF/SET OF
componentsContainer(d, tagSet, components) ==
    LET tagged(proto) ==
            [proto EXCEPT !.tagSet = TagSet(proto.tagSet.baseTag, tagSet.superTags)]
    IN  tagged(IF SeveralTagSets(components) THEN protoRecordComponent(d)
               ELSE protoSequenceComponent(d))

\* what follows the loop of _decodeComponents
fillComponents(l, d, tagSet) ==
    LET filled(f) ==
            IF f.exc # "" THEN Raise(f.exc, l.c, l.log) ELSE Ok(f.obj, l.c, l.log)
    IN  IF l.st = "raise" THEN Raise(l.err, l.c, l.log)
        ELSE filled(setAll([exc |-> "",
                            obj |-> componentsContainer(d, tagSet, l.components)],
                           l.components, 0))

\* UniversalConstructedTypeDecoder._decodeComponents
_decodeComponents(d, c, tagSet, options) ==
    fillComponents(decodeComponentsLoop(c, <<>>, options, <<>>), d, tagSet)

\* substrateFun was given: the object handed to it
constructedPrototype(d, asn1Spec, tagSet) ==
    IF asn1Spec.kind # "None" THEN asn1Spec
    ELSE IF protoComponent(d).kind # "None"
    THEN [protoComponent(d) EXCEPT !.tagSet = tagSet]
    ELSE PyTuple(<<protoRecordComponent(d), protoSequenceComponent(d)>>)

\* the Spec of the next component of a SEQUENCE or SET, definite length:
\* [exc, spec]
componentTypeAt(namedTypes, isSetType, isDeterministic, idx) ==
    IF namedTypes = <<>> THEN [exc |-> "", spec |-> None]
    ELSE IF isSetType THEN [exc |-> "", spec |-> tagMapUnique(namedTypes)]
    ELSE IF idx >= Len(namedTypes) THEN [exc |-> "PyAsn1Error", spec |-> None]
    ELSE IF isDeterministic THEN [exc |-> "", spec |-> namedTypes[idx + 1].asn1Object]
    ELSE IF namedTypes[idx + 1].isOptional \/ namedTypes[idx + 1].isDefaulted
    THEN [exc |-> "", spec |-> getTagMapNearPosition(namedTypes, idx)]
    ELSE [exc |-> "", spec |-> namedTypes[idx + 1].asn1Object]

\* the same, indefinite length
componentTypeAtIndef(namedTypes, isSetType, isDeterministic, idx) ==
    IF Len(namedTypes) <= idx THEN [exc |-> "", spec |-> None]
    ELSE IF isSetType THEN [exc |-> "", spec |-> tagMapUnique(namedTypes)]
    ELSE IF isDeterministic THEN [exc |-> "", spec |-> namedTypes[idx + 1].asn1Object]
    ELSE IF namedTypes[idx + 1].isOptional \/ namedTypes[idx + 1].isDefaulted
    THEN [exc |-> "", spec |-> getTagMapNearPosition(namedTypes, idx)]
    ELSE [exc |-> "", spec |-> namedTypes[idx + 1].asn1Object]

\* the position of a decoded component: [exc, idx]
componentPosition(namedTypes, isSetType, isDeterministic, idx, component) ==
    IF isDeterministic \/ namedTypes = <<>> THEN [exc |-> "", idx |-> idx]
    ELSE IF isSetType
    THEN IF component.kind \notin {"asn1", "eoo"}
         THEN [exc |-> "AttributeError", idx |-> idx]
         ELSE getPositionByType(namedTypes, effectiveTagSet(component))
    ELSE IF idx >= Len(namedTypes) THEN [exc |-> "IndexError", idx |-> idx]
    ELSE IF namedTypes[idx + 1].isOptional \/ namedTypes[idx + 1].isDefaulted
    THEN IF component.kind \notin {"asn1", "eoo"}
         THEN [exc |-> "AttributeError", idx |-> idx]
         ELSE getPositionNearType(namedTypes, effectiveTagSet(component), idx)
    ELSE [exc |-> "", idx |-> idx]

\* the state of a component loop: cursor, next position, positions seen,
\* the object being filled, the log
LoopState(st, err, c, idx, seenIndices, asn1Object, log) ==
    [st |-> st, err |-> err, c |-> c, idx |-> idx, seenIndices |-> seenIndices,
     asn1Object |-> asn1Object, log |-> log]

\* the loop of the definite-length form goes on while this holds
ConstructedLoopCondition(c, original_position, length) ==
    tell(c) - original_position < length

\* the loop ends with an exception raised after the nested call r
LoopRaise(l, e, r) ==
    [l EXCEPT !.st = "raise", !.err = e, !.c = r.c, !.log = l.log \o r.log]

\* asn1Object.setComponentByPosition(idx, component, ...) returned s
storeComponent(l, r, idx, seenIndices, s) ==
    IF s.exc # "" THEN LoopRaise(l, s.exc, r)
    ELSE LoopState("ok", "", r.c, idx + 1, seenIndices, s.obj, l.log \o r.log)

\* the component of a SEQUENCE or SET was given its position p
placeComponent(l, r, p) ==
    IF p.exc # "" THEN LoopRaise(l, p.exc, r)
    ELSE storeComponent(l, r, p.idx, l.seenIndices \cup {p.idx},
                        setComponentByPosition(l.asn1Object, p.idx, r.ret))

\* the body of the component loops of a SEQUENCE or SET: t is the Spec of
\* the component, r the nested call made with it; the indefinite-length
\* form breaks at the EOO
recordComponent(l, t, r, indef, namedTypes, isSetType, isDeterministic) ==
    IF t.exc # "" THEN [l EXCEPT !.st = "raise", !.err = t.exc]
    ELSE IF r.st = "raise" THEN LoopRaise(l, r.err, r)
    ELSE IF indef /\ r.ret.kind = "eoo"
    THEN [l EXCEPT !.st = "break", !.c = r.c, !.log = l.log \o r.log]
    ELSE placeComponent(l, r, componentPosition(namedTypes, isSetType, isDeterministic,
                                                l.idx, r.ret))

\* the same of a SEQUENCE OF or SET OF
collectionComponent(l, r, indef) ==
    IF r.st = "raise" THEN LoopRaise(l, r.err, r)
    ELSE IF indef /\ r.ret.kind = "eoo"
    THEN [l EXCEPT !.st = "break", !.c = r.c, !.log = l.log \o r.log]
    ELSE storeComponent(l, r, l.idx, l.seenIndices,
                        setComponentByPosition(l.asn1Object, l.idx, r.ret))

RECURSIVE recordLoop(_, _, _, _, _, _, _)
\* valueDecoder, SEQUENCE or SET with a Spec: the component loop
recordLoop(l, original_position, length, namedTypes, isSetType, isDeterministic, options) ==
    IF l.st # "ok" \/ ~ConstructedLoopCondition(l.c, original_position, length) THEN l
    ELSE recordLoop(
             recordComponent(l,
                 componentTypeAt(namedTypes, isSetType, isDeterministic, l.idx),
                 decodeFun(l.c,
                     componentTypeAt(namedTypes, isSetType, isDeterministic, l.idx).spec,
                     <<>>, <<>>, stDecodeTag, "None", options),
                 FALSE, namedTypes, isSetType, isDeterministic),
             original_position, length, namedTypes, isSetType, isDeterministic, options)

RECURSIVE recordIndefLoop(_, _, _, _, _)
\* indefLenValueDecoder, SEQUENCE or SET with a Spec: the component loop
\* while not endOfStream(substrate): ... else: raise SubstrateUnderrunError
recordIndefLoop(l, namedTypes, isSetType, isDeterministic, options) ==
    IF l.st # "ok" THEN l
    ELSE IF endOfStream(l.c)
    THEN [l EXCEPT !.st = "raise", !.err = "SubstrateUnderrunError"]
    ELSE recordIndefLoop(
             recordComponent(l,
                 componentTypeAtIndef(namedTypes, isSetType, isDeterministic, l.idx),
                 decodeFun(l.c,
                     componentTypeAtIndef(namedTypes, isSetType, isDeterministic,
                                          l.idx).spec,
                     <<>>, <<>>, stDecodeTag, "None",
                     [options EXCEPT !.allowEoo = TRUE]),
                 TRUE, namedTypes, isSetType, isDeterministic),
             namedTypes, isSetType, isDeterministic, options)

RECURSIVE collectionLoop(_, _, _, _, _)
\* valueDecoder, SEQUENCE OF or SET OF with a Spec: the component loop
collectionLoop(l, original_position, length, componentType, options) ==
    IF l.st # "ok" \/ ~ConstructedLoopCondition(l.c, original_position, length) THEN l
    ELSE collectionLoop(collectionComponent(l,
                            decodeFun(l.c, componentType, <<>>, <<>>, stDecodeTag,
                                      "None", options), FALSE),
                        original_position, length, componentType, options)

RECURSIVE collectionIndefLoop(_, _, _)
\* indefLenValueDecoder, SEQUENCE OF or SET OF with a Spec
\* while not endOfStream(substrate): ... else: raise SubstrateUnderrunError
collectionIndefLoop(l, componentType, options) ==
    IF l.st # "ok" THEN l
    ELSE IF endOfStream(l.c)
    THEN [l EXCEPT !.st = "raise", !.err = "SubstrateUnderrunError"]
    ELSE collectionIndefLoop(collectionComponent(l,
                                 decodeFun(l.c, componentType, <<>>, <<>>, stDecodeTag,
                                           "None", [options EXCEPT !.allowEoo = TRUE]),
                                 TRUE),
                             componentType, options)

(***************************************************************************)
(* Open types: the fields governed by another field are decoded again from *)
(* their octets.  indef tells the indefinite-length form, whose nested     *)
(* calls are made with allowEoo=True.                                      *)
(***************************************************************************)
\* value.asOctets(): [exc, octets]
asOctets(value) ==
    IF value.kind = "asn1" /\ value.isValue
       /\ value.typeId \in {"OctetString", "Any"} \cup StringTypeNames
    THEN [exc |-> "", octets |-> value.val]
    ELSE [exc |-> "AttributeError", octets |-> <<>>]

\* the lookup with the schema's own map asked first
lookupSchemaFirst(openTypes, namedType, governingValue) ==
    LET own == namedType.openType[1].typeMap
        hit(m) == {i \in 1..Len(m) : <<m[i].gov>> = governingValue.val}
        first(m) == m[CHOOSE i \in hit(m) : \A j \in hit(m) : i <= j].obj
    IN  IF ~(governingValue.kind = "asn1" /\ governingValue.isValue)
        THEN [exc |-> "PyAsn1Error", found |-> FALSE, obj |-> None]
        ELSE IF hit(own) # {} THEN [exc |-> "", found |-> TRUE, obj |-> first(own)]
        ELSE IF hit(openTypes) # {}
        THEN [exc |-> "", found |-> TRUE, obj |-> first(openTypes)]
        ELSE [exc |-> "", found |-> FALSE, obj |-> None]

\* openTypes[governingValue], then namedType.openType[governingValue]:
\* [exc, found, obj]
lookupOpenType(openTypes, namedType, governingValue) ==
    LET own == namedType.openType[1].typeMap
        hit(m) == {i \in 1..Len(m) : <<m[i].gov>> = governingValue.val}
        first(m) == m[CHOOSE i \in hit(m) : \A j \in hit(m) : i <= j].obj
    IN  IF ~(governingValue.kind = "asn1" /\ governingValue.isValue)
        THEN [exc |-> "PyAsn1Error", found |-> FALSE, obj |-> None]
        ELSE IF hit(openTypes) # {}
        THEN [exc |-> "", found |-> TRUE, obj |-> first(openTypes)]
        ELSE IF hit(own) # {} THEN [exc |-> "", found |-> TRUE, obj |-> first(own)]
        ELSE [exc |-> "", found |-> FALSE, obj |-> None]

\* containerValue[pos] = component: SequenceOf/SetOf.__setitem__ with the
\* default tag matching of setComponentByPosition
setItem(containerValue, pos, component) ==
    LET isSuperTagSetOf(own, other) ==
            /\ Len(other) >= Len(own)
            /\ \A i \in 1..Len(own) : TagEq(own[i], other[i])
        converted(r) ==
            IF r.exc = "PyAsn1Error" THEN [exc |-> "IndexError", obj |-> containerValue]
            ELSE r
        checked(componentType) ==
            IF IsAsn1Item(component) /\ componentType # <<>>
               /\ ~isSuperTagSetOf(componentType[1].tagSet.superTags,
                                   component.tagSet.superTags)
               /\ componentType[1].typeId # "Any"
            THEN [exc |-> "IndexError", obj |-> containerValue]
            ELSE converted(setCollectionComponent(containerValue, pos, component))
    IN  checked(containerValue.componentType)

\* the nested call on the octets of a value returned r: the caller's cursor
\* goes on, with the caches of the engine
backFrom(c, r) == [c EXCEPT !.engine = r.c.engine]

\* the open type decoded from the octets o of one element of a SET OF or
\* SEQUENCE OF, stored in its place: [st, ret, err, c, log]
resolveElement(containerValue, pos, o, r, c, log) ==
    LET stored(s) ==
            IF s.exc # "" THEN Raise(s.exc, backFrom(c, r), log \o r.log)
            ELSE Ok(s.obj, backFrom(c, r), log \o r.log)
    IN  IF o.exc # "" THEN Raise(o.exc, c, log)
        ELSE IF r.st = "raise" THEN Raise(r.err, backFrom(c, r), log \o r.log)
        ELSE stored(setItem(containerValue, pos, r.ret))

RECURSIVE resolveElements(_, _, _, _)
\* for pos, containerElement in enumerate(containerValue): decode the
\* element's octets with the open type and store what comes back.  x is the
\* container so far, with the cursor and the log.
resolveElements(x, pos, openType, options) ==
    IF x.st = "raise" \/ pos >= Len(x.ret.components) THEN x
    ELSE resolveElements(
             resolveElement(x.ret, pos, asOctets(x.ret.components[pos + 1]),
                 decodeFun(asSeekableStream(asOctets(x.ret.components[pos + 1]).octets,
                                            x.c),
                           openType, <<>>, <<>>, stDecodeTag, "None", options),
                 x.c, x.log),
             pos + 1, openType, options)

\* the open type decoded from the octets o of a field, stored in its place
resolveValue(asn1Object, idx, o, r, c, indef, log) ==
    LET stored(s) ==
            IF s.exc # "" THEN Raise(s.exc, backFrom(c, r), log \o r.log)
            ELSE Ok(s.obj, backFrom(c, r), log \o r.log)
    IN  IF o.exc # "" THEN Raise(o.exc, c, log)
        ELSE IF r.st = "raise" THEN Raise(r.err, backFrom(c, r), log \o r.log)
        ELSE IF indef /\ r.ret.kind = "eoo"
        THEN Ok(asn1Object, backFrom(c, r), log \o r.log)
        ELSE stored(setComponentByPosition(asn1Object, idx, r.ret))

\* the field at idx is governed and its open type was found
resolveField(asn1Object, idx, containerValue, openType, c, options, indef, log) ==
    LET elements(e) ==
            IF e.st = "raise" THEN e
            ELSE Ok([asn1Object EXCEPT !.components[idx + 1] = e.ret], e.c, e.log)
    IN  IF containerValue.typeId \in {"SetOf", "SequenceOf"}
        THEN elements(resolveElements(Ok(containerValue, c, log), 0, openType, options))
        ELSE resolveValue(asn1Object, idx, asOctets(containerValue),
                 decodeFun(asSeekableStream(asOctets(containerValue).octets, c),
                           openType, <<>>, <<>>, stDecodeTag, "None", options),
                 c, indef, log)

\* the body of the loop over the named types
resolveNamedType(asn1Object, idx, namedType, containerValue, c, options, indef, log) ==
    LET governed(found) ==
            IF found.exc # "" THEN Raise(found.exc, c, log)
            ELSE IF ~found.found THEN Ok(asn1Object, c, log)
            ELSE resolveField(asn1Object, idx, containerValue, found.obj, c,
                     IF indef THEN [options EXCEPT !.allowEoo = TRUE] ELSE options,
                     indef, log)
    IN  IF namedType.openType = <<>> THEN Ok(asn1Object, c, log)
        ELSE IF namedType.isOptional /\ ~containerValue.isValue
        THEN Ok(asn1Object, c, log)
        ELSE governed(lookupOpenType(options.openTypes, namedType,
                          getComponentByName(asn1Object, namedType.openType[1].name)))

RECURSIVE resolveOpenTypes(_, _, _, _, _)
\* for idx, namedType in enumerate(namedTypes.namedTypes): ...
\* x is the object so far, with the cursor and the log
resolveOpenTypes(x, namedTypes, idx, options, indef) ==
    IF x.st = "raise" \/ idx >= Len(namedTypes) THEN x
    ELSE resolveOpenTypes(
             resolveNamedType(x.ret, idx, namedTypes[idx + 1],
                              getComponentByPosition(x.ret, idx), x.c, options, indef,
                              x.log),
             namedTypes, idx + 1, options, indef)

\* the same without the check of the required components
finishRecordUnchecked(l, namedTypes, options, indef) ==
    IF l.st = "raise" THEN Raise(l.err, l.c, l.log)
    ELSE IF namedTypes = <<>> THEN Ok(l.asn1Object, l.c, l.log)
    ELSE IF hasOpenTypes(namedTypes)
            /\ (options.openTypes # <<>> \/ options.decodeOpenTypes)
    THEN resolveOpenTypes(Ok(l.asn1Object, l.c, l.log), namedTypes, 0, options, indef)
    ELSE Ok(l.asn1Object, l.c, l.log)

\* what follows the component loop of a SEQUENCE or SET with a Spec
finishRecord(l, namedTypes, options, indef) ==
    IF l.st = "raise" THEN Raise(l.err, l.c, l.log)
    ELSE IF namedTypes = <<>> THEN Ok(l.asn1Object, l.c, l.log)
    ELSE IF ~(requiredComponents(namedTypes) \subseteq l.seenIndices)
    THEN Raise("PyAsn1Error", l.c, l.log)
    ELSE IF hasOpenTypes(namedTypes)
            /\ (options.openTypes # <<>> \/ options.decodeOpenTypes)
    THEN resolveOpenTypes(Ok(l.asn1Object, l.c, l.log), namedTypes, 0, options, indef)
    ELSE Ok(l.asn1Object, l.c, l.log)

\* what follows the component loop of a SEQUENCE OF or SET OF with a Spec
finishCollection(l) ==
    IF l.st = "raise" THEN Raise(l.err, l.c, l.log) ELSE Ok(l.asn1Object, l.c, l.log)

\* isDeterministic of a SEQUENCE or SET
isDeterministic(asn1Spec) ==
    asn1Spec.typeId # "Set" /\ ~hasOptionalOrDefault(asn1Spec.namedTypes)

\* asn1Spec.componentType of a SEQUENCE OF or SET OF
componentTypeOf(asn1Spec) ==
    IF asn1Spec.componentType = <<>> THEN None ELSE asn1Spec.componentType[1]

\* UniversalConstructedTypeDecoder.valueDecoder
ConstructedDecoder_valueDecoder(d, c, asn1Spec, tagSet, length, state, substrateFun, options) ==
    IF tagSet.superTags[1].tagFormat # tagFormatConstructed
    THEN Raise("PyAsn1Error", c, <<>>)
    ELSE IF substrateFun # "None"
    THEN callSubstrateFun(substrateFun, constructedPrototype(d, asn1Spec, tagSet),
                          c, length)
    ELSE IF asn1Spec.kind = "None" THEN _decodeComponents(d, c, tagSet, options)
    ELSE IF asn1Spec.typeId \in {"Sequence", "Set"}
    THEN finishRecord(
             recordLoop(LoopState("ok", "", c, 0, {}, cloneCleared(asn1Spec), <<>>),
                        tell(c), length, asn1Spec.namedTypes, asn1Spec.typeId = "Set",
                        isDeterministic(asn1Spec), options),
             asn1Spec.namedTypes, options, FALSE)
    ELSE finishCollection(
             collectionLoop(LoopState("ok", "", c, 0, {}, cloneCleared(asn1Spec), <<>>),
                            tell(c), length, componentTypeOf(asn1Spec), options))

\* UniversalConstructedTypeDecoder.indefLenValueDecoder
ConstructedDecoder_indefLenValueDecoder(d, c, asn1Spec, tagSet, length, state, substrateFun, options) ==
    IF tagSet.superTags[1].tagFormat # tagFormatConstructed
    THEN Raise("PyAsn1Error", c, <<>>)
    ELSE IF substrateFun # "None"
    THEN callSubstrateFun(substrateFun, constructedPrototype(d, asn1Spec, tagSet),
                          c, length)
    ELSE IF asn1Spec.kind = "None"
    THEN _decodeComponents(d, c, tagSet, [options EXCEPT !.allowEoo = TRUE])
    ELSE IF asn1Spec.typeId \in {"Sequence", "Set"}
    THEN finishRecord(
             recordIndefLoop(LoopState("ok", "", c, 0, {}, cloneCleared(asn1Spec), <<>>),
                             asn1Spec.namedTypes, asn1Spec.typeId = "Set",
                             isDeterministic(asn1Spec), options),
             asn1Spec.namedTypes, options, TRUE)
    ELSE finishCollection(
             collectionIndefLoop(LoopState("ok", "", c, 0, {}, cloneCleared(asn1Spec),
                                           <<>>),
                                 componentTypeOf(asn1Spec), options))

(***************************************************************************)
(* ChoiceDecoder                                                           *)
(***************************************************************************)
\* asn1Object of both forms
choiceObject(d, asn1Spec, tagSet) ==
    IF asn1Spec.kind = "None" THEN [protoComponent(d) EXCEPT !.tagSet = tagSet]
    ELSE asn1Spec

\* what follows the nested call of both forms: the component is stored by
\* its effective tag set; c and log are the cursor and the log by then
choiceStore(asn1Object, r, c, log) ==
    LET stored(s) ==
            IF s.exc # "" THEN Raise(s.exc, c, log) ELSE Ok(s.obj, c, log)
    IN  IF r.st = "raise" THEN Raise(r.err, c, log)
        ELSE IF r.ret.kind \notin {"asn1", "eoo"} THEN Raise("AttributeError", c, log)
        ELSE stored(setComponentByType(asn1Object, effectiveTagSet(r.ret), r.ret))

\* the nested call of both forms, made with the tag map m
choiceComponent(c, m, explicit, tagSet, length, state, options) ==
    decodeFun(c, m, IF explicit THEN <<>> ELSE <<tagSet>>,
              IF explicit THEN <<>> ELSE <<length>>,
              IF explicit THEN stDecodeTag ELSE state, "None", options)

\* the explicitly tagged CHOICE of indefinite length: the EOO after it
choiceMarker(asn1Object, r, eooMarker) ==
    IF eooMarker.st = "raise"
    THEN Raise(eooMarker.err, eooMarker.c, r.log \o eooMarker.log)
    ELSE IF eooMarker.ret.kind # "eoo"
    THEN Raise("PyAsn1Error", eooMarker.c, r.log \o eooMarker.log)
    ELSE choiceStore(asn1Object, r, eooMarker.c, r.log \o eooMarker.log)

ChoiceDecoder_valueDecoder(d, c, asn1Spec, tagSet, length, state, substrateFun, options) ==
    LET decoded(asn1Object, r) == choiceStore(asn1Object, r, r.c, r.log)
    IN  IF substrateFun # "None"
        THEN callSubstrateFun(substrateFun, choiceObject(d, asn1Spec, tagSet), c, length)
        ELSE decoded(choiceObject(d, asn1Spec, tagSet),
                 choiceComponent(c, componentTagMap(choiceObject(d, asn1Spec, tagSet)),
                     TagSetEq(choiceObject(d, asn1Spec, tagSet).tagSet, tagSet),
                     tagSet, length, state, options))

ChoiceDecoder_indefLenValueDecoder(d, c, asn1Spec, tagSet, length, state, substrateFun, options) ==
    LET decoded(asn1Object, explicit, r) ==
            IF ~explicit \/ r.st = "raise" THEN choiceStore(asn1Object, r, r.c, r.log)
            ELSE choiceMarker(asn1Object, r,
                     decodeFun(r.c, None, <<>>, <<>>, stDecodeTag, "None",
                               [options EXCEPT !.allowEoo = TRUE]))
    IN  IF substrateFun # "None"
        THEN callSubstrateFun(substrateFun, choiceObject(d, asn1Spec, tagSet), c, length)
        ELSE decoded(choiceObject(d, asn1Spec, tagSet),
                 TagSetEq(choiceObject(d, asn1Spec, tagSet).tagSet, tagSet),
                 choiceComponent(c,
                     tagMapUnique(choiceObject(d, asn1Spec, tagSet).namedTypes),
                     TagSetEq(choiceObject(d, asn1Spec, tagSet).tagSet, tagSet),
                     tagSet, length, state, options))

(***************************************************************************)
(* AnyDecoder                                                              *)
(***************************************************************************)
\* asn1Spec.tagMap of a TagMap object: the class has no such attribute
AnyIsTagged(asn1Spec, tagSet) ==
    IF asn1Spec.kind = "None" THEN [exc |-> "", tagged |-> FALSE]
    ELSE IF asn1Spec.kind = "tagmap" THEN [exc |-> "AttributeError", tagged |-> FALSE]
    ELSE [exc |-> "", tagged |-> TagSetEq(tagSet, asn1Spec.tagSet)]

AnyDecoder_valueDecoder(d, c, asn1Spec, tagSet, length, state, substrateFun, options) ==
    LET read(c1, length1) ==
            IF substrateFun # "None"
            THEN callSubstrateFun(substrateFun,
                     _createComponent(d, asn1Spec, tagSet, noValue, options), c1, length1)
            ELSE Ok(_createComponent(d, asn1Spec, tagSet,
                                     Bytes(readOctets(c1, length1)), options),
                    afterRead(c1, length1), <<>>)
        any(t, fullPosition, currentPosition) ==
            IF t.exc # "" THEN Raise(t.exc, c, <<>>)
            ELSE IF t.tagged THEN read(c, length)
            ELSE read(seekSet(c, fullPosition),
                      length + (currentPosition - fullPosition))
    IN  any(AnyIsTagged(asn1Spec, tagSet), c.mark, tell(c))

RECURSIVE AnyDecoder_indefLoop(_, _, _, _, _)
\* while not endOfStream(substrate): ... else: raise SubstrateUnderrunError
AnyDecoder_indefLoop(d, c, header, options, log) ==
    LET added(r, a) ==
            IF a.exc # "" THEN Raise(a.exc, r.c, log \o r.log)
            ELSE AnyDecoder_indefLoop(d, r.c, a.obj, options, log \o r.log)
        decoded(r) ==
            IF r.st = "raise" THEN Raise(r.err, r.c, log \o r.log)
            ELSE IF r.ret.kind = "eoo" THEN Ok(header, r.c, log \o r.log)
            ELSE added(r, Concat(header, r.ret))
    IN  IF endOfStream(c) THEN Raise("SubstrateUnderrunError", c, log)
        ELSE decoded(decodeFun(c, protoComponent(d), <<>>, <<>>, stDecodeTag,
                               "substrateCollector", [options EXCEPT !.allowEoo = TRUE]))

AnyDecoder_indefLenValueDecoder(d, c, asn1Spec, tagSet, length, state, substrateFun, options) ==
    LET chunks(c1, header) ==
            IF substrateFun \notin {"None", "substrateCollector"}
            THEN Raise("TypeError", c1, <<>>)
            ELSE AnyDecoder_indefLoop(d, c1, Bytes(header), options, <<>>)
        untagged(back, n) == chunks(afterRead(back, n), readOctets(back, n))
        any(t) ==
            IF t.exc # "" THEN Raise(t.exc, c, <<>>)
            ELSE IF t.tagged THEN chunks(c, <<>>)
            ELSE IF options.fullPosition = <<>> THEN Raise("KeyError", c, <<>>)
            ELSE untagged(seekSet(c, options.fullPosition[1]),
                          tell(c) - options.fullPosition[1])
    IN  any(AnyIsTagged(asn1Spec, tagSet))

(***************************************************************************)
(* concreteDecoder.valueDecoder(...), concreteDecoder.indefLenValueDecoder *)
(* The contents of OBJECT IDENTIFIER and REAL are not covered: no input of *)
(* this development carries their tags.                                    *)
(***************************************************************************)
valueDecoder(d, c, asn1Spec, tagSet, length, state, substrateFun, options) ==
    CASE d.cls = "ExplicitTagDecoder" ->
            ExplicitTagDecoder_valueDecoder(d, c, asn1Spec, tagSet, length, state, substrateFun, options)
      [] d.cls \in {"IntegerDecoder", "BooleanDecoder"} ->
            IntegerDecoder_valueDecoder(d, c, asn1Spec, tagSet, length, state, substrateFun, options)
      [] d.cls = "BitStringDecoder" ->
            BitStringDecoder_valueDecoder(d, c, asn1Spec, tagSet, length, state, substrateFun, options)
      [] d.cls = "OctetStringDecoder" ->
            OctetStringDecoder_valueDecoder(d, c, asn1Spec, tagSet, length, state, substrateFun, options)
      [] d.cls = "NullDecoder" ->
            NullDecoder_valueDecoder(d, c, asn1Spec, tagSet, length, state, substrateFun, options)
      [] d.cls = "ChoiceDecoder" ->
            ChoiceDecoder_valueDecoder(d, c, asn1Spec, tagSet, length, state, substrateFun, options)
      [] d.cls = "AnyDecoder" ->
            AnyDecoder_valueDecoder(d, c, asn1Spec, tagSet, length, state, substrateFun, options)
      [] d.cls = "ObjectIdentifierDecoder" ->
            ObjectIdentifierDecoder_valueDecoder(d, c, asn1Spec, tagSet, length, state, substrateFun, options)
      [] d.cls = "RealDecoder" ->
            RealDecoder_valueDecoder(d, c, asn1Spec, tagSet, length, state, substrateFun, options)
      [] OTHER ->
            ConstructedDecoder_valueDecoder(d, c, asn1Spec, tagSet, length, state, substrateFun, options)

\* AbstractDecoder.indefLenValueDecoder raises PyAsn1Error where a class
\* does not define its own
indefLenValueDecoder(d, c, asn1Spec, tagSet, length, state, substrateFun, options) ==
    CASE d.cls = "ExplicitTagDecoder" ->
            ExplicitTagDecoder_indefLenValueDecoder(d, c, asn1Spec, tagSet, length, state, substrateFun, options)
      [] d.cls \in {"IntegerDecoder", "BooleanDecoder", "NullDecoder",
                     "ObjectIdentifierDecoder", "RealDecoder"} ->
            Raise("PyAsn1Error", c, <<>>)
      [] d.cls = "BitStringDecoder" ->
            BitStringDecoder_indefLenValueDecoder(d, c, asn1Spec, tagSet, length, state, substrateFun, options)
      [] d.cls = "OctetStringDecoder" ->
            OctetStringDecoder_indefLenValueDecoder(d, c, asn1Spec, tagSet, length, state, substrateFun, options)
      [] d.cls = "ChoiceDecoder" ->
            ChoiceDecoder_indefLenValueDecoder(d, c, asn1Spec, tagSet, length, state, substrateFun, options)
      [] d.cls = "AnyDecoder" ->
            AnyDecoder_indefLenValueDecoder(d, c, asn1Spec, tagSet, length, state, substrateFun, options)
      [] OTHER ->
            ConstructedDecoder_indefLenValueDecoder(d, c, asn1Spec, tagSet, length, state, substrateFun, options)

(***************************************************************************)
(* Decoder.__call__: the engine.  x is the frame of one call: the cursor,  *)
(* the arguments as the states rewrite them, the decoder chosen, the       *)
(* octets of identifier and length read, the states passed through, and    *)
(* out: "" while the call goes on, "None" for return None, else the name   *)
(* of the exception raised.                                                *)
(***************************************************************************)
Frame(c, asn1Spec, tagSet, length, state, substrateFun) ==
    [c |-> c, asn1Spec |-> asn1Spec, tagSet |-> tagSet, length |-> length,
     state |-> state, substrateFun |-> substrateFun, concreteDecoder |-> NoDecoder,
     out |-> "", idOctets |-> 0, lenOctets |-> 0, trace |-> <<>>,
     given |-> tagSet, withSpec |-> asn1Spec.kind # "None"]

\* a long tag read as one octet after the first, whatever its high bit
oneOctetTag(c, tagId) ==
    IF readOctets(c, 1) = <<>>
    THEN [exc |-> "SubstrateUnderrunError", tagId |-> tagId, c |-> c]
    ELSE [exc |-> "", tagId |-> readOctets(c, 1)[1] % 128, c |-> afterRead(c, 1)]

RECURSIVE longTag(_, _)
\* the loop over the octets of a long tag: [exc, tagId, c]
longTag(c, tagId) ==
    LET integerByte == readOctets(c, 1)
        id == tagId * 128 + (integerByte[1] % 128)
    IN  IF integerByte = <<>>
        THEN [exc |-> "SubstrateUnderrunError", tagId |-> tagId, c |-> c]
        ELSE IF integerByte[1] < 128
        THEN [exc |-> "", tagId |-> id, c |-> afterRead(c, 1)]
        ELSE longTag(afterRead(c, 1), id)

\* the TagSet of the tag alone, whatever the caller passed
singleTagSet(lastTag, tagSet) == TagSet(<<>>, <<lastTag>>)

\* if tagSet is None: tagSet = TagSet((), lastTag); else: tagSet = lastTag + tagSet
accumulatedTagSet(lastTag, tagSet) ==
    IF tagSet = <<>> THEN TagSet(<<>>, <<lastTag>>)
    ELSE TagSetRadd(lastTag, tagSet[1])

\* cache[key] of a dict kept as the set of its items: no value (KeyError)
\* or one
cacheGet(cache, key) == {item.value : item \in {i \in cache : i.key = key}}

\* cache[key] = value
cacheSet(cache, key, value) ==
    {i \in cache : i.key # key} \cup {[key |-> key, value |-> value]}

\* a tag cache that takes the long tags as well
cacheAnyTag(tagCache, firstOctet, lastTag, isShortTag) ==
    cacheSet(tagCache, firstOctet, lastTag)

\* if isShortTag: tagCache[firstOctet] = lastTag
cacheShortTag(tagCache, firstOctet, lastTag, isShortTag) ==
    IF isShortTag THEN cacheSet(tagCache, firstOctet, lastTag) ELSE tagCache

\* if state is stDecodeTag
DecodeTag(x) ==
    LET firstByte == readOctets(x.c, 1)
        firstOctet == firstByte[1]
        c1 == afterRead(x.c, 1)
        cachedTag == cacheGet(c1.engine.tagCache, firstOctet)
        isShortTag == cachedTag # {} \/ firstOctet % 32 # 31
        long == IF isShortTag THEN [exc |-> "", tagId |-> firstOctet % 32, c |-> c1]
                ELSE longTag(c1, 0)
        lastTag == IF cachedTag # {} THEN CHOOSE t \in cachedTag : TRUE
                   ELSE Tag((firstOctet \div 64) * 64, ((firstOctet \div 32) % 2) * 32,
                            long.tagId)
        cachedTagSet == cacheGet(c1.engine.tagSetCache, firstOctet)
        recovered == x.tagSet = <<>> /\ isShortTag /\ cachedTagSet # {}
        tagSet == IF recovered THEN CHOOSE t \in cachedTagSet : TRUE
                  ELSE accumulatedTagSet(lastTag, x.tagSet)
        engine == [long.c.engine EXCEPT
                      !.tagCache = IF cachedTag # {} THEN @
                                   ELSE cacheShortTag(@, firstOctet, lastTag, isShortTag),
                      !.tagSetCache = IF x.tagSet = <<>> /\ isShortTag /\ ~recovered
                                      THEN cacheSet(@, firstOctet, tagSet)
                                      ELSE @]
    IN  IF firstByte = <<>>
        THEN [x EXCEPT !.out = "None", !.trace = Append(@, stDecodeTag)]
        ELSE IF long.exc # ""
        THEN [x EXCEPT !.out = long.exc, !.c = long.c, !.trace = Append(@, stDecodeTag)]
        ELSE [x EXCEPT !.c = [long.c EXCEPT !.engine = engine],
                       !.tagSet = <<tagSet>>, !.state = stDecodeLength,
                       !.idOctets = tell(long.c) - tell(x.c),
                       !.trace = Append(@, stDecodeTag)]

\* the octets of the length taken least significant first
littleEndianLength(encodedLength) ==
    IF encodedLength = <<>> THEN 0
    ELSE fromBytesUnsigned([i \in 1..Len(encodedLength) |->
                               encodedLength[Len(encodedLength) + 1 - i]])

\* for lengthOctet in encodedLength: length <<= 8; length |= lengthOctet
decodedLength(encodedLength) == fromBytesUnsigned(encodedLength)

\* an engine that takes the indefinite length whatever its configuration
neverRefused(length, engine) == FALSE

\* if length == -1 and not self.supportIndefLength
indefiniteRefused(length, engine) == length = -1 /\ ~engine.supportIndefLength

\* if state is stDecodeLength
DecodeLength(x) ==
    LET first == readOctets(x.c, 1)
        firstOctet == first[1]
        c1 == afterRead(x.c, 1)
        size == firstOctet % 128
        encodedLength == readOctets(c1, size)
        c2 == IF firstOctet > 128 THEN afterRead(c1, size) ELSE c1
        length == IF firstOctet < 128 THEN firstOctet
                  ELSE IF firstOctet > 128 THEN decodedLength(encodedLength)
                  ELSE -1
        y == [x EXCEPT !.trace = Append(@, stDecodeLength)]
    IN  IF first = <<>> THEN [y EXCEPT !.out = "SubstrateUnderrunError"]
        ELSE IF firstOctet > 128 /\ Len(encodedLength) # size
        THEN [y EXCEPT !.out = "SubstrateUnderrunError", !.c = c2]
        ELSE IF indefiniteRefused(length, x.c.engine)
        THEN [y EXCEPT !.out = "PyAsn1Error", !.c = c2]
        ELSE [y EXCEPT !.c = c2, !.length = <<length>>, !.state = stGetValueDecoder,
                       !.lenOctets = tell(c2) - tell(x.c)]

\* if state is stGetValueDecoder
GetValueDecoder(x) ==
    [x EXCEPT !.state = IF x.asn1Spec.kind = "None" THEN stGetValueDecoderByTag
                        ELSE stGetValueDecoderByAsn1Spec,
              !.trace = Append(@, stGetValueDecoder)]

\* if state is stGetValueDecoderByTag
GetValueDecoderByTag(x) ==
    LET whole == tagMap(x.tagSet[1])
        first == tagMap(TagSetFirst(x.tagSet[1]))
        concreteDecoder == IF whole # NoDecoder THEN whole ELSE first
    IN  [x EXCEPT !.concreteDecoder = concreteDecoder,
                  !.state = IF concreteDecoder # NoDecoder THEN stDecodeValue
                            ELSE stTryAsExplicitTag,
                  !.trace = Append(@, stGetValueDecoderByTag)]

\* if state is stGetValueDecoderByAsn1Spec
GetValueDecoderByAsn1Spec(x) ==
    LET y == [x EXCEPT !.trace = Append(@, stGetValueDecoderByAsn1Spec)]
        found(chosenSpec, concreteDecoder) ==
            IF concreteDecoder # NoDecoder
            THEN [y EXCEPT !.concreteDecoder = concreteDecoder, !.asn1Spec = chosenSpec,
                           !.state = stDecodeValue]
            ELSE [y EXCEPT !.concreteDecoder = NoDecoder, !.state = stTryAsExplicitTag]
        byType(chosenSpec, byTypeId) ==
            found(chosenSpec,
                  IF byTypeId # NoDecoder THEN byTypeId
                  ELSE tagMap(TagSet(chosenSpec.tagSet.baseTag,
                                     chosenSpec.tagSet.baseTag)))
        chosen(chosenSpec) ==
            IF chosenSpec.kind = "None" THEN found(None, NoDecoder)
            ELSE byType(chosenSpec, typeMap(chosenSpec.typeId))
        mapped(got) ==
            IF got.exc = "PyAsn1Error" THEN [y EXCEPT !.out = "PyAsn1Error"]
            ELSE chosen(IF got.exc = "" THEN got.obj ELSE None)
    IN  IF x.asn1Spec.kind = "tagmap" THEN mapped(TagMapGet(x.asn1Spec, x.tagSet[1]))
        ELSE chosen(IF TagSetEq(x.tagSet[1], x.asn1Spec.tagSet)
                       \/ TagMapContains(tagMapOf(x.asn1Spec), x.tagSet[1])
                    THEN x.asn1Spec ELSE None)

\* an engine that takes every unresolved tag for an explicit one
TryAlwaysExplicit(x) ==
    [x EXCEPT !.concreteDecoder = Dec("ExplicitTagDecoder"), !.state = stDecodeValue,
              !.trace = Append(@, stTryAsExplicitTag)]

\* an engine that decodes the value of an unresolved primitive tag though
\* no decoder was chosen
TryWithoutDecoder(x) ==
    LET tagSet == x.tagSet[1]
        explicit == /\ tagSet.superTags # <<>>
                    /\ tagSet.superTags[1].tagFormat = tagFormatConstructed
                    /\ tagSet.superTags[1].tagClass # tagClassUniversal
        simple == /\ tagSet.superTags # <<>>
                  /\ tagSet.superTags[1].tagFormat = tagFormatSimple
    IN  [x EXCEPT !.concreteDecoder = IF explicit THEN Dec("ExplicitTagDecoder")
                                      ELSE NoDecoder,
                  !.state = IF explicit \/ simple THEN stDecodeValue
                            ELSE stErrorCondition,
                  !.trace = Append(@, stTryAsExplicitTag)]

\* if state is stTryAsExplicitTag
TryAsExplicitTag(x) ==
    LET tagSet == x.tagSet[1]
        explicit == /\ tagSet.superTags # <<>>
                    /\ tagSet.superTags[1].tagFormat = tagFormatConstructed
                    /\ tagSet.superTags[1].tagClass # tagClassUniversal
    IN  [x EXCEPT !.concreteDecoder = IF explicit THEN Dec("ExplicitTagDecoder")
                                      ELSE NoDecoder,
                  !.state = IF explicit THEN stDecodeValue
                            ELSE IF x.c.engine.defaultErrorState = "stDumpRawValue"
                            THEN stDumpRawValue ELSE stErrorCondition,
                  !.trace = Append(@, stTryAsExplicitTag)]

\* if state is stDumpRawValue
DumpRawValue(x) ==
    [x EXCEPT !.concreteDecoder = Dec("AnyDecoder"), !.state = stDecodeValue,
              !.trace = Append(@, stDumpRawValue)]

\* a block of the loop runs when the call goes on and the state is its own
When(x, s, block(_)) == IF x.out = "" /\ x.state = s THEN block(x) ELSE x

\* the blocks of the loop before stDecodeValue, in the order of the source
BeforeDecodeValue(x) ==
    When(When(When(When(When(x, stDecodeTag, DecodeTag),
                        stDecodeLength, DecodeLength),
                   stGetValueDecoder, GetValueDecoder),
              stGetValueDecoderByTag, GetValueDecoderByTag),
         stGetValueDecoderByAsn1Spec, GetValueDecoderByAsn1Spec)

\* the blocks after stDecodeValue
AfterDecodeValue(x) ==
    When(When(x, stTryAsExplicitTag, TryAsExplicitTag), stDumpRawValue, DumpRawValue)

\* both, as far as the loop goes before it decodes a value or stops
UntilDecodeValue(x) ==
    IF x.out = "" /\ x.state # stDecodeValue THEN AfterDecodeValue(x) ELSE x

\* the record of one call of the engine in the log: where it was entered,
\* the position marked, the header octets read, the position and the length
\* at stDecodeValue, the position after the value decoder, how the value
\* decoder (vd) and the call (st) ended, and the kind of what the call
\* returned, the decoder chosen (cls) and the TagSet accumulated
CallEvent(entry, x, origin, after, vd, st, ret) ==
    [entry |-> entry, mark |-> x.c.mark, idOctets |-> x.idOctets,
     lenOctets |-> x.lenOctets, origin |-> origin,
     length |-> IF x.length = <<>> THEN -2 ELSE x.length[1],
     after |-> after, vd |-> vd, st |-> st, ret |-> ret.kind,
     cls |-> x.concreteDecoder.cls, tagSet |-> x.tagSet, trace |-> x.trace,
     given |-> x.given, withSpec |-> x.withSpec]

\* a weaker check, that only rejects reading past the declared length
LengthExceeded(bytes_read, length) == bytes_read > length

\* bytes_read != length
LengthMismatch(bytes_read, length) == bytes_read # length

\* if state is stDecodeValue
DecodeValue(x, entry, options) ==
    LET substrateFun == IF ~options.recursiveFlag /\ x.substrateFun = "None"
                        THEN "lambda" ELSE x.substrateFun
        original_position == tell(x.c)
        length == x.length[1]
        y == [x EXCEPT !.trace = Append(@, stDecodeValue)]
        checked(v) ==
            LET bytes_read == tell(v.c) - original_position
                event(vd, st, ret) ==
                    CallEvent(entry, y, original_position, tell(v.c), vd, st, ret)
            IN  IF v.st = "raise"
                THEN Raise(v.err, v.c, <<event("raise", "raise", None)>> \o v.log)
                ELSE IF length # -1 /\ LengthMismatch(bytes_read, length)
                THEN Raise("PyAsn1Error", v.c, <<event("ok", "raise", None)>> \o v.log)
                ELSE Ok(v.ret, v.c, <<event("ok", "ok", v.ret)>> \o v.log)
    IN  checked(IF length = -1
                THEN indefLenValueDecoder(x.concreteDecoder, x.c, x.asn1Spec,
                         x.tagSet[1], length, stGetValueDecoder, substrateFun, options)
                ELSE valueDecoder(x.concreteDecoder, x.c, x.asn1Spec, x.tagSet[1],
                         length, stGetValueDecoder, substrateFun, options))

\* what the call returns once the loop decodes a value or stops
AfterLoop(x, entry, options) ==
    LET event(y, st) == CallEvent(entry, y, tell(x.c), tell(x.c), "none", st, None)
    IN  IF x.out = "None" THEN Ok(None, x.c, <<event(x, "ok")>>)
        ELSE IF x.out # "" THEN Raise(x.out, x.c, <<event(x, "raise")>>)
        ELSE IF x.state = stDecodeValue
        THEN DecodeValue(x, entry, [options EXCEPT !.allowEoo = FALSE])
        ELSE Raise("PyAsn1Error", x.c,
                   <<event([x EXCEPT !.trace = Append(@, stErrorCondition)], "raise")>>)

\* the body of Decoder.__call__
engineCall(c, asn1Spec, tagSet, length, state, substrateFun, options) ==
    LET allowEoo == options.allowEoo /\ c.engine.supportIndefLength
        frame(c0) == Frame([c0 EXCEPT !.mark = tell(c0)], asn1Spec, tagSet, length,
                           state, substrateFun)
        eoo(x) == Ok(endOfOctets, x.c,
                     <<CallEvent(tell(c), x, tell(x.c), tell(x.c), "none", "ok",
                                 endOfOctets)>>)
    IN  IF allowEoo /\ readOctets(c, 2) = <<0, 0>>
        THEN eoo(Frame(afterRead(c, 2), asn1Spec, tagSet, length, state, substrateFun))
        ELSE AfterLoop(UntilDecodeValue(BeforeDecodeValue(
                           frame(IF allowEoo THEN seekCur(afterRead(c, 2), -2) ELSE c))),
                       tell(c), options)

\* the call returns to its caller
Returned(r, depth) == [r EXCEPT !.c.depth = depth]

\* the engine calls that may be in progress at once: the interpreter's
\* recursion limit, scaled to the depth of the inputs
MaxDepth == 8

\* Decoder.__call__(substrate, asn1Spec, tagSet, length, state, decodeFun,
\* substrateFun, **options); tagSet and length hold zero or one value.
\* A call beyond the recursion limit raises RecursionError.
decodeFun(c, asn1Spec, tagSet, length, state, substrateFun, options) ==
    IF c.depth >= MaxDepth THEN Raise("RecursionError", c, <<>>)
    ELSE Returned(engineCall([c EXCEPT !.depth = @ + 1], asn1Spec, tagSet, length,
                             state, substrateFun, options),
                  c.depth)

(***************************************************************************)
(* BER on the wire: what the substrate of a run is made of.  A TLV is      *)
(* primitive (content octets) or constructed (inner TLVs), of definite     *)
(* length or, when constructed, of indefinite length closed by 00 00.      *)
(***************************************************************************)
Prim(id, content) ==
    [form |-> "prim", id |-> id, indef |-> FALSE, content |-> content, kids |-> <<>>]
Cons(id, indef, kids) ==
    [form |-> "cons", id |-> id, indef |-> indef, content |-> <<>>, kids |-> kids]

RECURSIVE Encode(_)
RECURSIVE EncodeAll(_)
\* the octets of one TLV; lengths stay in the short form
Encode(tlv) ==
    LET body == EncodeAll(tlv.kids)
    IN  IF tlv.form = "prim" THEN <<tlv.id, Len(tlv.content)>> \o tlv.content
        ELSE IF tlv.indef THEN <<tlv.id, 128>> \o body \o <<0, 0>>
        ELSE <<tlv.id, Len(body)>> \o body
\* the octets of TLVs in a row
EncodeAll(tlvs) ==
    IF tlvs = <<>> THEN <<>> ELSE Encode(Head(tlvs)) \o EncodeAll(Tail(tlvs))

\* the same TLV in the other length form, at its outer level
OtherForm(tlv) == [tlv EXCEPT !.indef = ~tlv.indef]

SeqsUpTo(S, n) == UNION {[1..k -> S] : k \in 0..n}

\* the bounds of the inputs
MaxComponents == 2
MaxSegments == 2
MaxCut == 2
MaxYields == 3
MaxInner == 2

\* primitive TLVs: INTEGER 5, OCTET STRING AA, NULL
Leaves == {Prim(2, <<5>>), Prim(4, <<170>>), Prim(5, <<>>)}
\* other primitive TLVs: BOOLEAN, empty OCTET STRING, BIT STRING, INTEGER 1
MoreLeaves == {Prim(1, <<255>>), Prim(4, <<>>), Prim(3, <<0, 170>>), Prim(2, <<1>>)}
\* segments of constructed strings
OctetSegments == {Prim(4, <<170>>), Prim(4, <<187, 204>>), Prim(4, <<>>)}
BitSegments == {Prim(3, <<0, 170>>), Prim(3, <<4, 240>>)}

\* constructed OCTET STRING (24) and BIT STRING (23) in both length forms
ConsOctetStrings ==
    {Cons(36, f, k) : f \in BOOLEAN, k \in SeqsUpTo(OctetSegments, MaxSegments)}
ConsBitStrings ==
    {Cons(35, f, k) : f \in BOOLEAN, k \in SeqsUpTo(BitSegments, MaxSegments)}
\* SEQUENCE (30) and SET (31) of primitive TLVs, and one level of nesting
Containers ==
    {Cons(id, f, k) : id \in {48, 49}, f \in BOOLEAN,
                      k \in SeqsUpTo(Leaves, MaxComponents)}
Nested ==
    {Cons(48, f, <<Cons(48, g, <<Prim(2, <<5>>)>>)>>) : f \in BOOLEAN, g \in BOOLEAN}
\* context-tagged TLVs: [0] primitive, [0] constructed
Tagged ==
    {Prim(128, <<170>>), Prim(128, <<0, 0>>), Prim(128, <<2, 1, 5>>)}
    \cup {Cons(160, f, k) : f \in BOOLEAN, k \in SeqsUpTo({Prim(2, <<5>>)}, MaxInner)}

TLVs == Leaves \cup MoreLeaves \cup ConsOctetStrings \cup ConsBitStrings
        \cup Containers \cup Nested \cup Tagged

(***************************************************************************)
(* The schemas (asn1Spec) of the runs.                                     *)
(***************************************************************************)
AnyImplicit == ImplicitlyTagged(Any, Tag(tagClassContext, tagFormatSimple, 0))
AnyExplicit == ExplicitlyTagged(Any, Tag(tagClassContext, tagFormatSimple, 0))
\* [0] EXPLICIT INTEGER
IntegerExplicit == ExplicitlyTagged(Integer, Tag(tagClassContext, tagFormatSimple, 0))
\* SEQUENCE { a INTEGER, b OCTET STRING OPTIONAL }
RecordSpec == Sequence(<<NamedType("a", Integer), OptionalNamedType("b", OctetString)>>)
\* SEQUENCE { a INTEGER, b NULL }
PlainRecordSpec == Sequence(<<NamedType("a", Integer), NamedType("b", Null)>>)
\* SEQUENCE { a INTEGER }
SingleRecordSpec == Sequence(<<NamedType("a", Integer)>>)
\* SEQUENCE { a INTEGER OPTIONAL }
OptionalRecordSpec == Sequence(<<OptionalNamedType("a", Integer)>>)
\* SET { a INTEGER, b OCTET STRING OPTIONAL }
SetSpec == Set(<<NamedType("a", Integer), OptionalNamedType("b", OctetString)>>)
\* CHOICE { n INTEGER, x ANY }
ChoiceSpec == Choice(<<NamedType("n", Integer), NamedType("x", Any)>>)
\* CHOICE { n INTEGER, s OCTET STRING, z NULL }
PlainChoiceSpec ==
    Choice(<<NamedType("n", Integer), NamedType("s", OctetString), NamedType("z", Null)>>)
\* SEQUENCE { id INTEGER, vals SET OF [0] IMPLICIT ANY DEFINED BY id }
OpenSpec ==
    Sequence(<<NamedType("id", Integer),
               OpenNamedType("vals", SetOf(<<AnyImplicit>>), "id",
                             <<[gov |-> 5, obj |-> OctetString]>>)>>)
\* SEQUENCE { id INTEGER, val ANY DEFINED BY id }
OpenFieldSpec ==
    Sequence(<<NamedType("id", Integer),
               OpenNamedType("val", Any, "id", <<[gov |-> 5, obj |-> OctetString]>>)>>)
\* SEQUENCE { id INTEGER, val ANY DEFINED BY id }, the schema's map holding
\* the governing values 5 and 7
GovernedSpec ==
    Sequence(<<NamedType("id", Integer),
               OpenNamedType("val", Any, "id", <<[gov |-> 5, obj |-> OctetString],
                                                 [gov |-> 7, obj |-> OctetString]>>)>>)
\* the caller's openTypes, holding the governing values 5 and 6
CallerOpenTypes == <<[gov |-> 5, obj |-> Integer], [gov |-> 6, obj |-> Integer]>>

\* the TLVs sent to the open-type schemas
OpenElements == {Prim(128, <<4, 1, 170>>), Prim(128, <<0, 0>>)}
OpenTLVs ==
    {Cons(48, f, <<Prim(2, <<5>>), Cons(49, g, k)>>) :
        f \in BOOLEAN, g \in BOOLEAN, k \in SeqsUpTo(OpenElements, MaxComponents)}
OpenFieldTLVs ==
    {Cons(48, f, <<Prim(2, <<5>>), v>>) : f \in BOOLEAN, v \in Leaves}
\* governing values in both maps, in one of them, in neither
Governors == 5 .. 8
GovernedTLVs ==
    {Cons(48, f, <<Prim(2, <<g>>), v>>) : f \in BOOLEAN, g \in Governors, v \in Leaves}

\* a case: a schema, the TLVs decoded under it, the keyword options
Case(name, asn1Spec, tlvs, kwargs) ==
    [name |-> name, asn1Spec |-> asn1Spec, tlvs |-> tlvs, kwargs |-> kwargs]

Cases ==
    {Case("none", None, TLVs, NoOptions),
     Case("none", None, TLVs, [NoOptions EXCEPT !.allowEoo = TRUE]),
     Case("OctetString", OctetString, ConsOctetStrings \cup Leaves, NoOptions),
     Case("BitString", BitString, ConsBitStrings \cup MoreLeaves, NoOptions),
     Case("Sequence", RecordSpec, Containers \cup Nested, NoOptions),
     Case("PlainSequence", PlainRecordSpec, Containers, NoOptions),
     Case("SingleSequence", SingleRecordSpec, Containers, NoOptions),
     Case("OptionalSequence", OptionalRecordSpec, Containers, NoOptions),
     Case("Set", SetSpec, Containers, NoOptions),
     Case("SequenceOf", SequenceOf(<<Integer>>), Containers \cup Nested, NoOptions),
     Case("SetOf", SetOf(<<Integer>>), Containers, NoOptions),
     Case("Any", Any, TLVs, NoOptions),
     Case("AnyImplicit", AnyImplicit, Tagged \cup Leaves, NoOptions),
     Case("AnyExplicit", AnyExplicit, Tagged \cup Leaves, NoOptions),
     Case("IntegerExplicit", IntegerExplicit, Tagged \cup Leaves, NoOptions),
     Case("Choice", ChoiceSpec, Leaves \cup MoreLeaves \cup ConsOctetStrings, NoOptions),
     Case("PlainChoice", PlainChoiceSpec, Leaves \cup MoreLeaves \cup ConsOctetStrings,
          NoOptions),
     Case("Open", OpenSpec, OpenTLVs, [NoOptions EXCEPT !.decodeOpenTypes = TRUE]),
     Case("OpenField", OpenFieldSpec, OpenFieldTLVs,
          [NoOptions EXCEPT !.decodeOpenTypes = TRUE]),
     Case("Governed", GovernedSpec, GovernedTLVs,
          [NoOptions EXCEPT !.decodeOpenTypes = TRUE]),
     Case("Governed", GovernedSpec, GovernedTLVs,
          [NoOptions EXCEPT !.openTypes = CallerOpenTypes])}

\* what may follow the first TLV of the stream
Followers == {<<>>, <<Prim(2, <<5>>)>>, <<Prim(5, <<>>)>>}
Tails == {<<>>, <<0>>, <<0, 0>>}

\* the stream of an input: its TLVs, then the tail, less cut octets at the end
Stream(in) ==
    LET whole == EncodeAll(<<in.tlv>> \o in.follower) \o in.tail
    IN  SubSeq(whole, 1, Len(whole) - Min(in.cut, Len(whole)))

(***************************************************************************)
(* decode(substrate, asn1Spec=None, **kwargs): the generator.  A step is   *)
(* one turn of its loop: a call of the engine on the stream, whose result  *)
(* is yielded, or ends the generator when it is None, or is an exception.  *)
(***************************************************************************)
VARIABLES substrate, asn1Spec, kwargs, pc, result, err, log, yields, input

vars == <<substrate, asn1Spec, kwargs, pc, result, err, log, yields, input>>

\* substrate = asSeekableStream(substrate), for every case and input
Init ==
    \E k \in Cases, f \in Followers, z \in Tails, n \in 0..MaxCut :
      \E t \in k.tlvs :
        /\ n > 0 => z = <<>>
        /\ k.name # "none" => f \in {<<>>, <<Prim(2, <<5>>)>>} /\ z = <<>>
        /\ input = [name |-> k.name, tlv |-> t, follower |-> f, tail |-> z, cut |-> n]
        /\ substrate = BytesIO(Stream(input), NewEngine)
        /\ asn1Spec = k.asn1Spec
        /\ kwargs = k.kwargs
        /\ pc = "running"
        /\ result = None
        /\ err = ""
        /\ log = <<>>
        /\ yields = 0

\* result = _decode(substrate, asn1Spec, **kwargs)
Call == decodeFun(substrate, asn1Spec, <<>>, <<>>, stDecodeTag, "None", kwargs)

\* yield result
Yield ==
    LET yield(r) ==
            /\ r.st = "ok"
            /\ r.ret.kind # "None"
            /\ result' = r.ret
            /\ substrate' = r.c
            /\ log' = r.log
    IN  /\ pc = "running"
        /\ yields < MaxYields
        /\ yield(Call)
        /\ yields' = yields + 1
        /\ UNCHANGED <<asn1Spec, kwargs, pc, err, input>>

\* if result is None: break
Exhausted ==
    LET break(r) ==
            /\ r.st = "ok"
            /\ r.ret.kind = "None"
            /\ substrate' = r.c
            /\ log' = r.log
    IN  /\ pc = "running"
        /\ break(Call)
        /\ pc' = "done"
        /\ result' = None
        /\ UNCHANGED <<asn1Spec, kwargs, err, yields, input>>

\* the call raises: the exception leaves the generator
Raised ==
    LET raise(r) ==
            /\ r.st = "raise"
            /\ err' = r.err
            /\ substrate' = r.c
            /\ log' = r.log
    IN  /\ pc = "running"
        /\ raise(Call)
        /\ pc' = "raised"
        /\ result' = None
        /\ UNCHANGED <<asn1Spec, kwargs, yields, input>>

Next == Yield \/ Exhausted \/ Raised

Spec == Init /\ [][Next]_vars

(***************************************************************************)
(* The header of a TLV.  A second specification runs the engine on short   *)
(* streams of arbitrary octets, with indefinite length supported or not:   *)
(* it reads the identifier octets, then the length octets, as the blocks   *)
(* stDecodeTag and stDecodeLength of Decoder.__call__ do, or it makes the  *)
(* whole call.  result holds the frame of the call after a block, or what  *)
(* the whole call returned.                                                *)
(***************************************************************************)
MaxHeader == 4

\* first octets: universal, context and private class, both forms, short and
\* long tags; the octets after them: short and long lengths, continuation
\* octets of long tags, the indefinite length
FirstOctets == {0, 2, 31, 48, 63, 128, 160, 223, 255}
NextOctets == {0, 1, 2, 128, 129, 130, 133, 255}

HeaderStreams ==
    {<<>>} \cup {<<o>> \o t : o \in FirstOctets, t \in SeqsUpTo(NextOctets, MaxHeader - 1)}

\* a Decoder subclass with supportIndefLength = False
NoIndefEngine == [NewEngine EXCEPT !.supportIndefLength = FALSE]

HeaderInit ==
    \E octets \in HeaderStreams, e \in {NewEngine, NoIndefEngine}, a \in BOOLEAN :
        /\ input = [name |-> "header", octets |-> octets]
        /\ substrate = BytesIO(octets, e)
        /\ asn1Spec = None
        /\ kwargs = [NoOptions EXCEPT !.allowEoo = a]
        /\ pc = "entry"
        /\ result = None
        /\ err = ""
        /\ log = <<>>
        /\ yields = 0

\* the block of stDecodeTag, at the entry of a call without allowEoo
ReadTag ==
    LET read(x) ==
            /\ result' = x
            /\ substrate' = x.c
            /\ pc' = IF x.out = "" THEN "tagged" ELSE "noTag"
            /\ err' = x.out
    IN  /\ pc = "entry"
        /\ ~kwargs.allowEoo
        /\ read(DecodeTag(Frame([substrate EXCEPT !.mark = tell(substrate)], asn1Spec,
                                <<>>, <<>>, stDecodeTag, "None")))
        /\ UNCHANGED <<asn1Spec, kwargs, log, yields, input>>

\* the block of stDecodeLength, after the tag
ReadLength ==
    LET read(x) ==
            /\ result' = x
            /\ substrate' = x.c
            /\ pc' = IF x.out = "" THEN "measured" ELSE "noLength"
            /\ err' = x.out
    IN  /\ pc = "tagged"
        /\ read(DecodeLength(result))
        /\ UNCHANGED <<asn1Spec, kwargs, log, yields, input>>

\* the whole call of the engine on the stream
WholeCall ==
    LET called(r) ==
            /\ result' = r.ret
            /\ substrate' = r.c
            /\ log' = r.log
            /\ err' = IF r.st = "raise" THEN r.err ELSE ""
            /\ pc' = IF r.st = "raise" THEN "raised" ELSE "returned"
    IN  /\ pc = "entry"
        /\ called(Call)
        /\ UNCHANGED <<asn1Spec, kwargs, yields, input>>

HeaderNext == ReadTag \/ ReadLength \/ WholeCall

HeaderSpec == HeaderInit /\ [][HeaderNext]_vars

(***************************************************************************)
(* The value decoders of the universal types on their own: a decoder is    *)
(* handed the cursor at the first content octet of a TLV, the tag read and *)
(* the declared length, as stDecodeValue hands them over; or the engine    *)
(* decodes the TLV as a whole.  The stream ends with the content, of which *)
(* the last octet may be missing.                                          *)
(***************************************************************************)
MaxContent == 3
\* the INTEGERs decoded fit 32 bits
MaxIntegerOctets == 4

ValueOctets == {0, 1, 8, 42, 128, 129, 255}

\* contents of the examples: the OID 1.2.840.113549, 18 bits, a
\* sub-identifier led by 0x80, a BOOLEAN octet
ExampleContents ==
    {<<42, 134, 72, 134, 247, 13>>, <<6, 110, 93, 192>>, <<128, 55>>, <<66>>,
     <<42, 134>>}

Contents == SeqsUpTo(ValueOctets, MaxContent) \cup ExampleContents

\* the universal tag ids of the decoders: BOOLEAN, INTEGER, BIT STRING,
\* NULL, OBJECT IDENTIFIER, REAL, ENUMERATED, SEQUENCE, SET
SimpleIds == {1, 2, 3, 5, 6, 9, 10}
ConstructedIds == {16, 17}

\* the k-th decoder the registry holds for a universal id: the one of tagMap,
\* and for SEQUENCE and SET those of typeMap after it
DecoderOf(id, k) ==
    IF id = 16 /\ k = 1 THEN Dec("SequenceDecoder")
    ELSE IF id = 16 /\ k = 2 THEN Dec("SequenceOfDecoder")
    ELSE IF id = 17 /\ k = 1 THEN Dec("SetDecoder")
    ELSE IF id = 17 /\ k = 2 THEN Dec("SetOfDecoder")
    ELSE tagMap(UnivTagSet(IF id \in ConstructedIds THEN tagFormatConstructed
                           ELSE tagFormatSimple, id))

\* the octets of the TLV: identifier, length, content
ValueStream(in) == <<in.id + in.form, in.length>> \o in.octets

\* a TLV of a universal type in either tag form, with the content the length
\* octet announces or one octet less, and the decoder it is handed to
ValueInputs ==
    {[name |-> "value", id |-> id, form |-> form, octets |-> octets, missing |-> m,
      decoder |-> DecoderOf(id, k),
      tagSet |-> TagSet(<<>>, <<Tag(tagClassUniversal, form, id)>>),
      length |-> Len(octets) + m] :
        id \in SimpleIds \cup ConstructedIds,
        form \in {tagFormatSimple, tagFormatConstructed},
        octets \in Contents, m \in {0, 1}, k \in 0 .. 2}

\* the constructed forms of BIT STRING, SEQUENCE and SET are inputs of the
\* generator above; of REAL only the empty content is decoded; the longest
\* content is an OBJECT IDENTIFIER
ValueInit ==
    /\ input \in {in \in ValueInputs :
                     /\ in.id \in ConstructedIds \cup {3} => in.form = tagFormatSimple
                     /\ (in.id = 9 /\ in.form = tagFormatSimple) => in.octets = <<>>
                     /\ Len(in.octets) > MaxIntegerOctets => in.id = 6}
    /\ substrate = [BytesIO(ValueStream(input), NewEngine) EXCEPT !.pos = 2]
    /\ asn1Spec = None
    /\ kwargs = NoOptions
    /\ pc = "entry"
    /\ result = None
    /\ err = ""
    /\ log = <<>>
    /\ yields = 0

\* the outcome r of a call becomes the state
Outcome(r, returned, raised) ==
    /\ pc' = IF r.st = "ok" THEN returned ELSE raised
    /\ result' = IF r.st = "ok" THEN r.ret ELSE None
    /\ err' = IF r.st = "ok" THEN "" ELSE r.err
    /\ substrate' = r.c
    /\ log' = r.log
    /\ UNCHANGED <<asn1Spec, kwargs, yields, input>>

\* concreteDecoder.valueDecoder(substrate, asn1Spec, tagSet, length,
\* stGetValueDecoder, self, substrateFun, **options) of each decoder
\* IntegerDecoder and BooleanDecoder; ENUMERATED has the IntegerDecoder
DecodeInteger ==
    /\ pc = "entry"
    /\ input.id \in {1, 2, 10}
    /\ Outcome(IntegerDecoder_valueDecoder(input.decoder, substrate, asn1Spec, input.tagSet, input.length,
               stGetValueDecoder, "None", kwargs), "decoded", "refused")

\* BitStringDecoder
DecodeBitString ==
    /\ pc = "entry"
    /\ input.id = 3
    /\ Outcome(BitStringDecoder_valueDecoder(input.decoder, substrate, asn1Spec, input.tagSet, input.length,
               stGetValueDecoder, "None", kwargs), "decoded", "refused")

\* NullDecoder
DecodeNull ==
    /\ pc = "entry"
    /\ input.id = 5
    /\ Outcome(NullDecoder_valueDecoder(input.decoder, substrate, asn1Spec, input.tagSet, input.length,
               stGetValueDecoder, "None", kwargs), "decoded", "refused")

\* ObjectIdentifierDecoder
DecodeObjectIdentifier ==
    /\ pc = "entry"
    /\ input.id = 6
    /\ Outcome(ObjectIdentifierDecoder_valueDecoder(input.decoder, substrate, asn1Spec, input.tagSet, input.length,
               stGetValueDecoder, "None", kwargs), "decoded", "refused")

\* RealDecoder
DecodeReal ==
    /\ pc = "entry"
    /\ input.id = 9
    /\ Outcome(RealDecoder_valueDecoder(input.decoder, substrate, asn1Spec, input.tagSet, input.length,
               stGetValueDecoder, "None", kwargs), "decoded", "refused")

\* UniversalConstructedTypeDecoder
DecodeConstructed ==
    /\ pc = "entry"
    /\ input.id \in ConstructedIds
    /\ Outcome(ConstructedDecoder_valueDecoder(input.decoder, substrate, asn1Spec, input.tagSet, input.length,
               stGetValueDecoder, "None", kwargs), "decoded", "refused")

\* concreteDecoder.indefLenValueDecoder(...) of a primitive type's decoder,
\* the length being -1
DecodeIndefinite ==
    /\ pc = "entry"
    /\ input.id \in SimpleIds \ {3}
    /\ Outcome(AbstractDecoder_indefLenValueDecoder(input.decoder, substrate, asn1Spec,
                   input.tagSet, -1, stGetValueDecoder, "None", kwargs),
               "decodedIndefinite", "refusedIndefinite")

\* concreteDecoder.indefLenValueDecoder(...) of a constructed type's decoder
DecodeConstructedIndefinite ==
    /\ pc = "entry"
    /\ input.id \in ConstructedIds
    /\ Outcome(ConstructedDecoder_indefLenValueDecoder(input.decoder, substrate, asn1Spec,
                   input.tagSet, -1, stGetValueDecoder, "None", kwargs),
               "decodedIndefinite", "refusedIndefinite")

\* the engine called on the TLV from its identifier octet
DecodeTLV ==
    /\ pc = "entry"
    /\ Outcome(decodeFun([substrate EXCEPT !.pos = 0], asn1Spec, <<>>, <<>>,
                         stDecodeTag, "None", kwargs),
               "returned", "raised")

ValueNext ==
    \/ DecodeInteger \/ DecodeBitString \/ DecodeNull \/ DecodeObjectIdentifier
    \/ DecodeReal \/ DecodeConstructed \/ DecodeTLV

ValueSpec == ValueInit /\ [][ValueNext]_vars

(***************************************************************************)
(* The caches of the engine: one engine reads the tag of one stream after  *)
(* another, as the module's _decode does over the calls of decode(), at    *)
(* the top level or with the TagSet of an explicit-tag wrapper passed.     *)
(***************************************************************************)
MaxTags == 3

\* identifier octets: short tags of three classes and both forms, long
\* tags of one and two further octets, long tags cut short
TagStreams ==
    {<<2>>, <<48>>, <<160>>, <<31, 5>>, <<31, 129, 2>>, <<63, 5>>, <<31>>, <<255, 130>>}

WrapperTagSet == TagSet(<<>>, <<Tag(tagClassContext, tagFormatConstructed, 0)>>)

CacheInit ==
    /\ input \in {[name |-> "tags", streams |-> t] :
                      t \in SeqsUpTo(TagStreams, MaxTags) \ {<<>>}}
    /\ substrate = BytesIO(<<>>, NewEngine)
    /\ asn1Spec = None
    /\ kwargs = NoOptions
    /\ pc = "entry"
    /\ result = None
    /\ err = ""
    /\ log = <<>>
    /\ yields = 0

\* the block of stDecodeTag on the next stream, no TagSet passed
TagAtTopLevel ==
    LET read(x) ==
            /\ result' = x
            /\ substrate' = x.c
            /\ pc' = IF x.out = "" THEN "tagged" ELSE "noTag"
            /\ err' = x.out
    IN  /\ yields < Len(input.streams)
        /\ read(DecodeTag(Frame(BytesIO(input.streams[yields + 1], substrate.engine),
                                asn1Spec, <<>>, <<>>, stDecodeTag, "None")))
        /\ yields' = yields + 1
        /\ UNCHANGED <<asn1Spec, kwargs, log, input>>

\* the same with the TagSet of a wrapper passed
TagUnderWrapper ==
    LET read(x) ==
            /\ result' = x
            /\ substrate' = x.c
            /\ pc' = IF x.out = "" THEN "tagged" ELSE "noTag"
            /\ err' = x.out
    IN  /\ yields < Len(input.streams)
        /\ read(DecodeTag(Frame(BytesIO(input.streams[yields + 1], substrate.engine),
                                asn1Spec, <<WrapperTagSet>>, <<>>, stDecodeTag, "None")))
        /\ yields' = yields + 1
        /\ UNCHANGED <<asn1Spec, kwargs, log, input>>

CacheNext == TagAtTopLevel \/ TagUnderWrapper

CacheSpec == CacheInit /\ [][CacheNext]_vars

(***************************************************************************)
(* The value decoders called with a substrateFun of the caller             *)
(***************************************************************************)
\* the decoder classes and a tag each is chosen for; CHOICE and ANY are
\* chosen by a Spec and meet any tag
HookedDecoders ==
    {[cls |-> "BooleanDecoder", tag |-> Tag(tagClassUniversal, tagFormatSimple, 1)],
     [cls |-> "IntegerDecoder", tag |-> Tag(tagClassUniversal, tagFormatSimple, 2)],
     [cls |-> "BitStringDecoder", tag |-> Tag(tagClassUniversal, tagFormatSimple, 3)],
     [cls |-> "BitStringDecoder", tag |-> Tag(tagClassUniversal, tagFormatConstructed, 3)],
     [cls |-> "OctetStringDecoder", tag |-> Tag(tagClassUniversal, tagFormatSimple, 4)],
     [cls |-> "OctetStringDecoder", tag |-> Tag(tagClassUniversal, tagFormatConstructed, 4)],
     [cls |-> "NullDecoder", tag |-> Tag(tagClassUniversal, tagFormatSimple, 5)],
     [cls |-> "ObjectIdentifierDecoder", tag |-> Tag(tagClassUniversal, tagFormatSimple, 6)],
     [cls |-> "RealDecoder", tag |-> Tag(tagClassUniversal, tagFormatSimple, 9)],
     [cls |-> "SequenceOrSequenceOfDecoder", tag |-> Tag(tagClassUniversal, tagFormatConstructed, 16)],
     [cls |-> "SetOrSetOfDecoder", tag |-> Tag(tagClassUniversal, tagFormatConstructed, 17)],
     [cls |-> "SequenceDecoder", tag |-> Tag(tagClassUniversal, tagFormatConstructed, 16)],
     [cls |-> "SetOfDecoder", tag |-> Tag(tagClassUniversal, tagFormatConstructed, 17)],
     [cls |-> "ChoiceDecoder", tag |-> Tag(tagClassUniversal, tagFormatSimple, 2)],
     [cls |-> "AnyDecoder", tag |-> Tag(tagClassUniversal, tagFormatSimple, 4)],
     [cls |-> "ExplicitTagDecoder", tag |-> Tag(tagClassContext, tagFormatConstructed, 0)]}

\* a TLV in the tag form its decoder accepts
HookInputs ==
    {[name |-> "hooked", decoder |-> Dec(h.cls), id |-> h.tag.tagId,
      form |-> h.tag.tagFormat, octets |-> octets,
      tagSet |-> TagSet(<<>>, <<h.tag>>), length |-> Len(octets)] :
        h \in HookedDecoders, octets \in Contents}

\* the cursor is behind the header; of REAL only the empty content is decoded
HookInit ==
    /\ input \in {in \in HookInputs :
                     /\ Len(in.octets) <= MaxIntegerOctets
                     /\ in.decoder.cls = "RealDecoder" => in.octets = <<>>}
    /\ substrate = [BytesIO(<<input.tagSet.superTags[1].tagClass + input.form + input.id,
                              input.length>> \o input.octets, NewEngine)
                        EXCEPT !.pos = 2]
    /\ asn1Spec = None
    /\ kwargs = NoOptions
    /\ pc = "entry"
    /\ result = None
    /\ err = ""
    /\ log = <<>>
    /\ yields = 0

\* concreteDecoder.valueDecoder(substrate, asn1Spec, tagSet, length,
\* stGetValueDecoder, self, substrateFun, **options) of each decoder class,
\* the caller's function passed
HookInteger ==
    /\ pc = "entry"
    /\ input.decoder.cls \in {"IntegerDecoder", "BooleanDecoder"}
    /\ Outcome(IntegerDecoder_valueDecoder(input.decoder, substrate, asn1Spec, input.tagSet,
                   input.length, stGetValueDecoder, "hook", kwargs),
               "hooked", "hookRaised")

HookNull ==
    /\ pc = "entry"
    /\ input.decoder.cls \in {"NullDecoder"}
    /\ Outcome(NullDecoder_valueDecoder(input.decoder, substrate, asn1Spec, input.tagSet,
                   input.length, stGetValueDecoder, "hook", kwargs),
               "hooked", "hookRaised")

HookObjectIdentifier ==
    /\ pc = "entry"
    /\ input.decoder.cls \in {"ObjectIdentifierDecoder"}
    /\ Outcome(ObjectIdentifierDecoder_valueDecoder(input.decoder, substrate, asn1Spec, input.tagSet,
                   input.length, stGetValueDecoder, "hook", kwargs),
               "hooked", "hookRaised")

HookReal ==
    /\ pc = "entry"
    /\ input.decoder.cls \in {"RealDecoder"}
    /\ Outcome(RealDecoder_valueDecoder(input.decoder, substrate, asn1Spec, input.tagSet,
                   input.length, stGetValueDecoder, "hook", kwargs),
               "hooked", "hookRaised")

HookBitString ==
    /\ pc = "entry"
    /\ input.decoder.cls \in {"BitStringDecoder"}
    /\ Outcome(BitStringDecoder_valueDecoder(input.decoder, substrate, asn1Spec, input.tagSet,
                   input.length, stGetValueDecoder, "hook", kwargs),
               "hooked", "hookRaised")

HookOctetString ==
    /\ pc = "entry"
    /\ input.decoder.cls \in {"OctetStringDecoder"}
    /\ Outcome(OctetStringDecoder_valueDecoder(input.decoder, substrate, asn1Spec, input.tagSet,
                   input.length, stGetValueDecoder, "hook", kwargs),
               "hooked", "hookRaised")

HookConstructed ==
    /\ pc = "entry"
    /\ input.decoder.cls \in {"SequenceOrSequenceOfDecoder", "SetOrSetOfDecoder", "SequenceDecoder", "SetOfDecoder"}
    /\ Outcome(ConstructedDecoder_valueDecoder(input.decoder, substrate, asn1Spec, input.tagSet,
                   input.length, stGetValueDecoder, "hook", kwargs),
               "hooked", "hookRaised")

HookChoice ==
    /\ pc = "entry"
    /\ input.decoder.cls \in {"ChoiceDecoder"}
    /\ Outcome(ChoiceDecoder_valueDecoder(input.decoder, substrate, asn1Spec, input.tagSet,
                   input.length, stGetValueDecoder, "hook", kwargs),
               "hooked", "hookRaised")

HookAny ==
    /\ pc = "entry"
    /\ input.decoder.cls \in {"AnyDecoder"}
    /\ Outcome(AnyDecoder_valueDecoder(input.decoder, substrate, asn1Spec, input.tagSet,
                   input.length, stGetValueDecoder, "hook", kwargs),
               "hooked", "hookRaised")

HookExplicitTag ==
    /\ pc = "entry"
    /\ input.decoder.cls \in {"ExplicitTagDecoder"}
    /\ Outcome(ExplicitTagDecoder_valueDecoder(input.decoder, substrate, asn1Spec, input.tagSet,
                   input.length, stGetValueDecoder, "hook", kwargs),
               "hooked", "hookRaised")

HookNext ==
    \/ HookInteger \/ HookNull \/ HookObjectIdentifier \/ HookReal \/ HookBitString
    \/ HookOctetString \/ HookConstructed \/ HookChoice \/ HookAny \/ HookExplicitTag

HookSpec == HookInit /\ [][HookNext]_vars

\* the decoders called directly with either length form, the engine left out
FormNext ==
    \/ DecodeInteger \/ DecodeNull \/ DecodeObjectIdentifier \/ DecodeReal
    \/ DecodeConstructed \/ DecodeIndefinite \/ DecodeConstructedIndefinite

FormSpec == ValueInit /\ [][FormNext]_vars

(***************************************************************************)
(* The generator run by an engine whose defaultErrorState is               *)
(* stDumpRawValue, beside the engine of the source, on TLVs that resolve   *)
(* to no decoder.                                                          *)
(***************************************************************************)
\* class RawDecoder(Decoder): defaultErrorState = stDumpRawValue
DumpEngine == [NewEngine EXCEPT !.defaultErrorState = "stDumpRawValue"]

\* primitive TLVs of the context and application classes and of a universal
\* tag no decoder is registered for, and two that resolve without a Spec
DumpTLVs ==
    {Prim(128, <<170>>), Prim(128, <<>>), Prim(129, <<0, 0>>), Prim(65, <<1, 2>>),
     Prim(15, <<7>>), Prim(2, <<5>>), Prim(4, <<170>>)}

DumpInit ==
    \E e \in {NewEngine, DumpEngine}, s \in {None, OctetString},
       f \in {<<>>, <<Prim(2, <<5>>)>>, <<Prim(128, <<170>>)>>}, n \in 0..MaxCut :
      \E t \in DumpTLVs :
        /\ input = [name |-> "raw", tlv |-> t, follower |-> f, tail |-> <<>>, cut |-> n]
        /\ substrate = BytesIO(Stream(input), e)
        /\ asn1Spec = s
        /\ kwargs = NoOptions
        /\ pc = "running"
        /\ result = None
        /\ err = ""
        /\ log = <<>>
        /\ yields = 0

DumpSpec == DumpInit /\ [][Next]_vars

(***************************************************************************)
(* Properties.  The calls of the engine made by the last step are in log,  *)
(* the call of the generator first, the nested calls after it.             *)
(***************************************************************************)
\* the calls that reached stDecodeValue with a definite length
DefiniteCalls == {i \in 1..Len(log) : log[i].vd # "none" /\ log[i].length >= 0}

\* C1: a call of the engine on a definite-length TLV succeeds only if its
\* value decoder advanced the cursor by exactly the declared length from
\* the position at stDecodeValue; when the value decoder returned after
\* fewer or more octets, the call raises and returns no value.
C1_LengthConsistency ==
    \A i \in DefiniteCalls :
        /\ log[i].st = "ok" => log[i].after - log[i].origin = log[i].length
        /\ (log[i].vd = "ok" /\ log[i].after - log[i].origin # log[i].length)
               => log[i].st = "raise" /\ log[i].ret = "None"

\* C1 witness: a value decoder returned after fewer octets than declared,
\* in a nested call, and the call raised
C1_Witness ==
    \E i \in DefiniteCalls :
        /\ i > 1
        /\ log[i].vd = "ok"
        /\ log[i].after - log[i].origin < log[i].length
        /\ log[i].st = "raise"

\* the step before was a yield: log[1] is the call of the generator that
\* returned the value
Yielded == pc = "running" /\ yields > 0 /\ Len(log) > 0 /\ log[1].st = "ok"

\* C2: after a successful top-level call entered at position p, the cursor
\* is at p + identifier octets + length octets + declared length when the
\* root TLV has a definite length, and right after the octets 00 00 when
\* its length is indefinite.
C2_CursorAfterCall ==
    Yielded =>
        /\ log[1].length >= 0 =>
               tell(substrate) = log[1].entry + log[1].idOctets + log[1].lenOctets
                                 + log[1].length
        /\ log[1].length = -1 =>
               /\ tell(substrate) >= log[1].entry + log[1].idOctets + log[1].lenOctets + 2
               /\ SubSeq(substrate.data, tell(substrate) - 1, tell(substrate)) = <<0, 0>>

\* the input is one well-formed definite-length SEQUENCE or SET, decoded
\* without a Spec, and whatever follows it in the stream
DefiniteContainerInput ==
    /\ input.name = "none" /\ ~kwargs.allowEoo
    /\ input.tlv \in Containers /\ ~input.tlv.indef
    /\ input.cut = 0 /\ input.tail = <<>>

\* C3: without a Spec, a definite-length SEQUENCE or SET of length L is
\* decoded from its L content octets only: the call succeeds, the cursor
\* stops at the end of the container and the TLV that follows it in the
\* stream is not one of its components.
C3_DefiniteContainerConfined ==
    DefiniteContainerInput =>
        /\ pc = "raised" => yields > 0
        /\ (pc = "running" /\ yields = 1) =>
               /\ tell(substrate) = Len(Encode(input.tlv))
               /\ Len(result.components) = Len(input.tlv.kids)

\* C4: no value yielded by decode(), whatever the stream and the options
\* passed through, is the EOO sentinel.
C4_NoEooYielded == result.kind # "eoo"

RECURSIVE HoldsEoo(_)
\* some component of the value, at any depth, is the EOO sentinel
HoldsEoo(value) ==
    \E i \in 1..Len(value.components) :
        value.components[i].kind = "eoo" \/ HoldsEoo(value.components[i])

\* C5: no component of a decoded SEQUENCE, SET, SEQUENCE OF, SET OF or
\* CHOICE is the EOO sentinel, the components that open-type resolution
\* replaced included, element by element for SEQUENCE OF and SET OF.
C5_NoEooStored == ~HoldsEoo(result)

RECURSIVE Joined(_)
\* the content octets of primitive TLVs, joined in their order
Joined(tlvs) == IF tlvs = <<>> THEN <<>> ELSE Head(tlvs).content \o Joined(Tail(tlvs))

\* the value that decode() yields first for the TLV alone, under the schema
\* and the options of the run; None when the call raises
DecodedAlone(tlv) ==
    LET alone(r) == IF r.st = "ok" THEN r.ret ELSE None
    IN  alone(decodeFun(BytesIO(Encode(tlv), NewEngine), asn1Spec, <<>>, <<>>,
                        stDecodeTag, "None", kwargs))

\* two decoded values are the same value of the same type
SameValue(a, b) ==
    a.kind = b.kind /\ a.typeId = b.typeId /\ a.isValue = b.isValue /\ a.val = b.val
    /\ TagSetEq(a.tagSet, b.tagSet)

\* the stream starts with a whole constructed OCTET STRING, decoded without
\* a Spec or as OCTET STRING
ConstructedOctetsInput ==
    /\ input.name \in {"none", "OctetString"}
    /\ input.tlv \in ConsOctetStrings
    /\ input.cut = 0

\* C6: a constructed OCTET STRING of definite or indefinite length, made of
\* primitive segments s1..sn, decodes to the value of the primitive OCTET
\* STRING whose content is s1 ++ ... ++ sn.
C6_ConstructedOctets ==
    ConstructedOctetsInput =>
        /\ pc = "raised" => yields > 0
        /\ (pc = "running" /\ yields = 1) =>
               /\ result.typeId = "OctetString"
               /\ result.val = Joined(input.tlv.kids)
               /\ SameValue(result, DecodedAlone(Prim(4, Joined(input.tlv.kids))))

\* C6 witness: two segments of an indefinite-length constructed OCTET
\* STRING, both with content, were joined
C6_Witness ==
    /\ ConstructedOctetsInput /\ input.tlv.indef
    /\ Len(input.tlv.kids) = 2
    /\ input.tlv.kids[1].content # <<>> /\ input.tlv.kids[2].content # <<>>
    /\ input.tlv.kids[1] # input.tlv.kids[2]
    /\ pc = "running" /\ yields = 1
    /\ result.val = input.tlv.kids[1].content \o input.tlv.kids[2].content

RECURSIVE JoinedBits(_)
\* the bits of primitive BIT STRING segments, each without the trailing bits
\* that its first content octet counts, joined in their order
JoinedBits(tlvs) ==
    IF tlvs = <<>> THEN <<>>
    ELSE fromOctetString(Tail(Head(tlvs).content), <<>>, Head(tlvs).content[1])
             \o JoinedBits(Tail(tlvs))

\* the stream starts with a whole constructed BIT STRING of definite length
\* L > 0, decoded without a Spec or as BIT STRING
DefiniteBitsInput ==
    /\ input.name \in {"none", "BitString"}
    /\ input.tlv \in ConsBitStrings
    /\ ~input.tlv.indef /\ input.tlv.kids # <<>>
    /\ input.cut = 0

\* C7: a constructed BIT STRING of definite length L > 0, made of primitive
\* BIT STRING segments, decodes successfully, within its L content octets,
\* to the BIT STRING of the segments' bits joined in their order.
C7_DefiniteConstructedBits ==
    DefiniteBitsInput =>
        /\ pc = "raised" => yields > 0
        /\ (pc = "running" /\ yields = 1) =>
               /\ result.typeId = "BitString"
               /\ result.val = JoinedBits(input.tlv.kids)
               /\ tell(substrate) = Len(Encode(input.tlv))

\* the indefinite-length form of the same segments does decode to the joined bits
IndefiniteConstructedBits ==
    (/\ input.name \in {"none", "BitString"} /\ input.tlv \in ConsBitStrings
     /\ input.tlv.indef /\ input.cut = 0) =>
        /\ pc = "raised" => yields > 0
        /\ (pc = "running" /\ yields = 1) => result.val = JoinedBits(input.tlv.kids)

\* the first call of decode() on the stream of the run with its first TLV
\* replaced by tlv, under the schema and the options of the run
FirstCall(tlv) ==
    decodeFun(BytesIO(EncodeAll(<<tlv>> \o input.follower) \o input.tail, NewEngine),
              asn1Spec, <<>>, <<>>, stDecodeTag, "None", kwargs)

RECURSIVE Alike(_, _)
\* two decoded values are the same value, component by component
Alike(a, b) ==
    /\ SameValue(a, b)
    /\ Len(a.components) = Len(b.components)
    /\ \A i \in 1..Len(a.components) : Alike(a.components[i], b.components[i])

\* the outcome o of a first call is the outcome of the first step of the run
SameOutcome(o) ==
    /\ (pc = "raised" /\ yields = 0) => o.st = "raise"
    /\ (pc = "running" /\ yields = 1) => o.st = "ok" /\ Alike(o.ret, result)

\* the stream starts with a whole SEQUENCE or SET of well-formed components,
\* decoded without a Spec or as SEQUENCE, SET, SEQUENCE OF or SET OF
ConstructedInput ==
    /\ input.name \in {"none", "Sequence", "PlainSequence", "Set", "SequenceOf", "SetOf"}
    /\ input.tlv \in Containers
    /\ input.cut = 0

\* C8: a SEQUENCE, SET, SEQUENCE OF or SET OF, with or without Spec, has
\* the same outcome in its indefinite-length encoding as in the
\* definite-length encoding of the same components: the same value, or a
\* failure in both.
C8_IndefiniteAsDefinite == ConstructedInput => SameOutcome(FirstCall(OtherForm(input.tlv)))

\* the two length forms do agree when a Spec is given, and without a Spec
\* when nothing follows the TLV in the stream
IndefiniteAsDefiniteConfined ==
    (ConstructedInput /\ (input.name = "none" => input.follower = <<>> /\ input.tail = <<>>))
        => SameOutcome(FirstCall(OtherForm(input.tlv)))

\* the content octets of a TLV
ContentOctets(tlv) == IF tlv.form = "prim" THEN tlv.content ELSE EncodeAll(tlv.kids)

\* the stream starts with a whole TLV of definite length that AnyDecoder
\* decodes as untagged ANY: under the Spec ANY, or under a tagged ANY Spec
\* whose tag it does not carry (without a Spec the engine of decode(), whose
\* defaultErrorState is stErrorCondition, never chooses AnyDecoder)
UntaggedAnyInput ==
    /\ ~input.tlv.indef /\ input.cut = 0
    /\ \/ input.name = "Any"
       \/ input.name \in {"AnyImplicit", "AnyExplicit"} /\ input.tlv \in Leaves

\* the same, as the ANY alternative of an untagged CHOICE
ChoiceAnyInput ==
    /\ ~input.tlv.indef /\ input.cut = 0
    /\ input.name = "Choice" /\ input.tlv.id # 2

\* the stream starts with a whole TLV of definite length that carries the
\* tag of the tagged ANY Spec
TaggedAnyInput ==
    /\ ~input.tlv.indef /\ input.cut = 0
    /\ input.name \in {"AnyImplicit", "AnyExplicit"} /\ input.tlv \in Tagged

\* the first step of the run has yielded an ANY of these octets
YieldedAny(value, octets) ==
    /\ pc = "raised" => yields > 0
    /\ (pc = "running" /\ yields = 1) =>
           /\ value.typeId = "Any"
           /\ value.val = octets
           /\ tell(substrate) = Len(Encode(input.tlv))

\* the ANY decoded directly holds the whole TLV, the tagged ANY its content
DirectAnyPreserved ==
    /\ UntaggedAnyInput => YieldedAny(result, Encode(input.tlv))
    /\ TaggedAnyInput => YieldedAny(result, ContentOctets(input.tlv))

\* C9: a TLV of definite length decoded as untagged ANY gives the exact
\* octets of the TLV, identifier and length octets included, and leaves the
\* cursor at the end of the TLV; decoded as tagged ANY it gives the content
\* octets only.
C9_DefiniteAny ==
    /\ DirectAnyPreserved
    /\ ChoiceAnyInput =>
           YieldedAny(IF result.typeId = "Choice" /\ result.components # <<>>
                      THEN result.components[1] ELSE result,
                      Encode(input.tlv))

\* the stream starts with a whole TLV of indefinite length, decoded as
\* untagged ANY under the Spec ANY
IndefiniteUntaggedAnyInput ==
    /\ input.tlv.indef /\ input.cut = 0
    /\ input.name = "Any" /\ input.tlv \in ConsOctetStrings \cup Containers

\* the same, decoded as tagged ANY under a Spec that carries its tag
IndefiniteTaggedAnyInput ==
    /\ input.tlv.indef /\ input.cut = 0
    /\ input.name \in {"AnyImplicit", "AnyExplicit"} /\ input.tlv \in Tagged

\* the first step of the run has yielded these octets, read up to the EOO
\* marker of the first TLV
YieldedOctets(octets) ==
    /\ pc = "raised" => yields > 0
    /\ (pc = "running" /\ yields = 1) =>
           /\ result.val = octets
           /\ tell(substrate) = Len(Encode(input.tlv))

\* the tagged ANY of indefinite length is the joined octets of the nested TLVs
IndefiniteTaggedAny ==
    IndefiniteTaggedAnyInput => YieldedOctets(EncodeAll(input.tlv.kids))

\* C10: a TLV of indefinite length decoded as ANY, tagged or untagged, is
\* decoded successfully as the joined octets of its nested TLVs up to the
\* EOO marker, after the header octets of the outer TLV when untagged.
C10_IndefiniteAny ==
    /\ IndefiniteTaggedAny
    /\ IndefiniteUntaggedAnyInput =>
           YieldedOctets(<<input.tlv.id, 128>> \o EncodeAll(input.tlv.kids))

\* the first call of decode() on the stream of the run, under another Spec
FirstCallUnder(spec) ==
    decodeFun(BytesIO(Stream(input), NewEngine), spec, <<>>, <<>>, stDecodeTag, "None",
              kwargs)

\* the alternative of the CHOICE Spec of the run that the first TLV of the
\* stream encodes, counted from 1; 0 when it encodes none
ChosenAlternative ==
    IF input.tlv.id = 2 THEN 1
    ELSE IF input.name = "Choice" THEN 2
    ELSE IF input.tlv.id \in {4, 36} THEN 2
    ELSE IF input.tlv.id = 5 THEN 3
    ELSE 0

\* the stream starts with the whole encoding of an alternative of the
\* untagged CHOICE Spec of the run
ChoiceInput ==
    /\ input.name \in {"Choice", "PlainChoice"}
    /\ input.cut = 0
    /\ ChosenAlternative > 0

\* the first step of the run gave a CHOICE of alternative a whose component
\* is what the call o, made under the Spec of the alternative, returned, with
\* the same octets consumed; or both failed
ChoiceAsStandalone(a, o) ==
    /\ (pc = "raised" /\ yields = 0) => o.st = "raise"
    /\ (pc = "running" /\ yields = 1) =>
           /\ o.st = "ok"
           /\ result.typeId = "Choice"
           /\ result.val = <<a - 1>>
           /\ Len(result.components) = 1
           /\ Alike(result.components[1], o.ret)
           /\ tell(substrate) = tell(o.c)

\* the alternatives other than ANY do decode as they do standalone
TypedAlternativeAsStandalone ==
    (ChoiceInput /\ asn1Spec.namedTypes[ChosenAlternative].asn1Object.typeId # "Any") =>
        ChoiceAsStandalone(ChosenAlternative,
            FirstCallUnder(asn1Spec.namedTypes[ChosenAlternative].asn1Object))

\* C11: under an untagged CHOICE Spec the encoding of an alternative A
\* decodes to a CHOICE whose component is the value that the same octets
\* decode to under A's own Spec, with the same number of octets consumed.
C11_ChoiceUntagging ==
    ChoiceInput =>
        ChoiceAsStandalone(ChosenAlternative,
            FirstCallUnder(asn1Spec.namedTypes[ChosenAlternative].asn1Object))

\* the run decodes under a SEQUENCE or SET Spec with named types
RecordInput == input.name \in {"Sequence", "PlainSequence", "Set"}

\* the positions of the Spec that are required
RequiredPositions == requiredComponents(asn1Spec.namedTypes)

\* the identifier octet of the TLVs of the named type at position i
IdOfNamedType(i) == asn1Spec.namedTypes[i + 1].asn1Object.tagSet.superTags[1].tagId

\* some required component of the Spec has no TLV among the components sent
RequiredMissing ==
    \E i \in RequiredPositions :
        \A k \in 1..Len(input.tlv.kids) : input.tlv.kids[k].id # IdOfNamedType(i)

\* C12: a SEQUENCE or SET decoded under a Spec with named types is yielded
\* only with a component set at every required position; when the contents
\* lack a required component the decode fails, in both length forms.
C12_RequiredComponents ==
    RecordInput =>
        /\ (pc = "running" /\ yields = 1) =>
               \A i \in RequiredPositions :
                   /\ i < Len(result.components)
                   /\ result.components[i + 1].isValue
        /\ (RequiredMissing /\ input.tlv \in Containers) => yields = 0

\* C12 witness: a SEQUENCE without a required component was rejected in
\* the indefinite-length form, all of its octets being there
C12_Witness ==
    /\ RecordInput /\ RequiredMissing
    /\ input.tlv \in Containers /\ input.tlv.indef /\ input.tlv.kids # <<>>
    /\ input.cut = 0
    /\ pc = "raised" /\ err = "PyAsn1Error"

\* the same in the definite-length form
RequiredMissingDefinite ==
    /\ RecordInput /\ RequiredMissing
    /\ input.tlv \in Containers /\ ~input.tlv.indef /\ input.tlv.kids # <<>>
    /\ input.cut = 0
    /\ pc = "raised" /\ err = "PyAsn1Error"

\* the run decodes a whole SEQUENCE under a SEQUENCE Spec with named types
\* that has fewer named types than the SEQUENCE has components
ExcessInput ==
    /\ input.name \in {"Sequence", "PlainSequence", "SingleSequence", "OptionalSequence"}
    /\ input.tlv \in Containers /\ input.tlv.id = 48
    /\ Len(input.tlv.kids) > Len(asn1Spec.namedTypes)
    /\ input.cut = 0

\* nothing is yielded, and the exception that ends the run is an error of
\* the decoder
RejectedAsError == yields = 0 /\ (pc = "raised" => err \in {"PyAsn1Error", "SubstrateUnderrunError"})

\* the definite-length form rejects the excess components with PyAsn1Error
ExcessRejectedDefinite == (ExcessInput /\ ~input.tlv.indef) => RejectedAsError

\* C13: a SEQUENCE decoded under a Spec of n named types is rejected with a
\* decoding error when its contents hold more than n TLVs, in both length
\* forms, and no value yielded under such a Spec has a component at a
\* position >= n.
C13_ExcessComponents ==
    /\ ExcessInput => RejectedAsError
    /\ (input.name \in {"Sequence", "PlainSequence", "SingleSequence", "OptionalSequence"}
        /\ pc = "running" /\ yields = 1)
           => Len(result.components) <= Len(asn1Spec.namedTypes)

\* the stream is one constructed TLV of indefinite length, cut before the
\* end of its EOO marker
TruncatedIndefiniteInput ==
    /\ input.tlv.indef /\ input.cut > 0
    /\ input.follower = <<>> /\ input.tail = <<>>
    /\ input.tlv \in Containers \cup ConsOctetStrings \cup ConsBitStrings
    /\ input.name \in {"none", "OctetString", "BitString", "Sequence", "PlainSequence",
                       "Set", "SequenceOf", "SetOf", "Any"}

\* the run yields nothing and ends, if it has ended, with a substrate underrun
FailsWithUnderrun ==
    /\ yields = 0 /\ pc # "done"
    /\ pc = "raised" => err = "SubstrateUnderrunError"

\* the constructed strings, and the SEQUENCE OF and SET OF decoded under a
\* Spec, do fail with a substrate underrun when the whole EOO marker is
\* missing
UnderrunWithoutMarker ==
    (/\ TruncatedIndefiniteInput /\ input.cut = 2
     /\ \/ input.name \in {"OctetString", "BitString"}
        \/ /\ input.name = "SequenceOf" /\ input.tlv.id = 48
           /\ \A k \in 1..Len(input.tlv.kids) : input.tlv.kids[k].id = 2
        \/ /\ input.name = "SetOf" /\ input.tlv.id = 49
           /\ \A k \in 1..Len(input.tlv.kids) : input.tlv.kids[k].id = 2)
        => FailsWithUnderrun

\* C14: a constructed value of indefinite length whose stream ends before
\* its EOO marker fails with a substrate underrun and yields no value.
C14_MissingEooUnderrun == TruncatedIndefiniteInput => FailsWithUnderrun

\* the TLVs of the stream of the run
StreamTLVs == <<input.tlv>> \o input.follower

\* the stream is the TLVs of the run and nothing else, each of them
\* decodable alone under the Spec of the run, with the default options
DecodableStream ==
    /\ input.cut = 0 /\ input.tail = <<>>
    /\ ~kwargs.allowEoo
    /\ \A i \in 1..Len(StreamTLVs) : DecodedAlone(StreamTLVs[i]).kind # "None"

\* decode() yields the values of the TLVs in their order and then ends at
\* the end of the stream
YieldsEachTLV ==
    /\ pc # "raised"
    /\ yields <= Len(StreamTLVs)
    /\ (yields > 0 /\ pc = "running") => Alike(result, DecodedAlone(StreamTLVs[yields]))
    /\ pc = "done" => yields = Len(StreamTLVs) /\ tell(substrate) = Len(substrate.data)

\* it does so when the first TLV is not a definite-length SEQUENCE or SET
\* decoded without a Spec
YieldsEachConfinedTLV ==
    (DecodableStream /\ ~(input.name = "none" /\ ~input.tlv.indef
                          /\ input.tlv.id \in {48, 49}))
        => YieldsEachTLV

\* C15: on a stream of k TLVs, each decodable under the Spec, decode()
\* yields exactly k values in stream order and then ends with the cursor at
\* the end of the stream.
C15_YieldsEachTLV == DecodableStream => YieldsEachTLV

\* the number of the identifier octets of a stream: 1 for a short tag, for
\* a long tag up to the first octet after the first whose high bit is 0;
\* 0 when the stream ends before
IdentifierOctets(octets) ==
    IF octets = <<>> THEN 0
    ELSE IF octets[1] % 32 # 31 THEN 1
    ELSE LET ends == {k \in 2..Len(octets) : octets[k] < 128}
         IN  IF ends = {} THEN 0 ELSE CHOOSE k \in ends : \A j \in ends : k <= j

RECURSIVE Base128(_)
\* the number whose base-128 digits are the low 7 bits of the octets, most
\* significant first
Base128(octets) ==
    IF octets = <<>> THEN 0
    ELSE (octets[1] % 128) * pow2(7 * (Len(octets) - 1)) + Base128(Tail(octets))

\* the stream starts with the octets p
StartsWith(octets, p) == Len(octets) >= Len(p) /\ SubSeq(octets, 1, Len(p)) = p

\* the tag read by the block stDecodeTag
TagRead == result.tagSet[1].superTags[1]

\* C16: the first identifier octet O gives class O & 0xC0, form O & 0x20
\* and id O & 0x1F; an id field of 0x1F makes the id the base-128 number of
\* the low 7 bits of the following octets up to the first whose high bit is
\* 0 (1F 85 00 is id 640), and a substrate underrun when there is no such
\* octet.
C16_TagReader ==
    (pc \in {"tagged", "noTag"} /\ input.octets # <<>>) =>
        LET O == input.octets[1]
            n == IdentifierOctets(input.octets)
        IN  /\ n = 0 => pc = "noTag" /\ err = "SubstrateUnderrunError"
            /\ n > 0 =>
                   /\ pc = "tagged"
                   /\ tell(substrate) = n
                   /\ TagRead.tagClass = (O \div 64) * 64
                   /\ TagRead.tagFormat = ((O \div 32) % 2) * 32
                   /\ TagRead.tagId = IF n = 1 THEN O % 32
                                      ELSE Base128(SubSeq(input.octets, 2, n))
            /\ StartsWith(input.octets, <<31, 133, 0>>) => TagRead.tagId = 640

\* C16 witness: the long tag 1F 85 00 was read as id 640
C16_Witness ==
    /\ pc = "tagged"
    /\ StartsWith(input.octets, <<31, 133, 0>>)
    /\ TagRead.tagId = 640 /\ TagRead.tagClass = 0 /\ TagRead.tagFormat = 0
    /\ tell(substrate) = 3

\* a long tag cut short was a substrate underrun
LongTagUnderrun ==
    /\ pc = "noTag" /\ err = "SubstrateUnderrunError"
    /\ input.octets = <<255, 133, 128>>

RECURSIVE BigEndian(_)
\* the unsigned number of the octets, most significant first
BigEndian(octets) ==
    IF octets = <<>> THEN 0
    ELSE octets[1] * pow2(8 * (Len(octets) - 1)) + BigEndian(Tail(octets))

\* the length read by the block stDecodeLength
LengthRead == result.length[1]

\* C17: the first length octet L gives the length L when L < 128, the
\* big-endian unsigned number of the next L & 0x7F octets when L > 128, and
\* the indefinite length when L = 128; the reader fails with a substrate
\* underrun when there is no length octet or fewer than L & 0x7F octets
\* follow.
C17_LengthReader ==
    pc \in {"measured", "noLength"} =>
        LET n == IdentifierOctets(input.octets)
            rest == SubSeq(input.octets, n + 1, Len(input.octets))
            L == rest[1]
            k == L % 128
        IN  /\ rest = <<>> => pc = "noLength" /\ err = "SubstrateUnderrunError"
            /\ (rest # <<>> /\ L < 128) =>
                   pc = "measured" /\ LengthRead = L /\ tell(substrate) = n + 1
            /\ (rest # <<>> /\ L = 128 /\ substrate.engine.supportIndefLength) =>
                   pc = "measured" /\ LengthRead = -1 /\ tell(substrate) = n + 1
            /\ (rest # <<>> /\ L > 128 /\ Len(rest) >= 1 + k) =>
                   /\ pc = "measured"
                   /\ LengthRead = BigEndian(SubSeq(rest, 2, 1 + k))
                   /\ tell(substrate) = n + 1 + k
            /\ (rest # <<>> /\ L > 128 /\ Len(rest) < 1 + k) =>
                   pc = "noLength" /\ err = "SubstrateUnderrunError"

\* C17 witness: the long length 82 01 02 was read as 258
C17_Witness ==
    /\ pc = "measured"
    /\ input.octets = <<2, 130, 1, 2>>
    /\ LengthRead = 258
    /\ tell(substrate) = 4

\* a long length cut short was a substrate underrun
LongLengthUnderrun ==
    /\ pc = "noLength" /\ err = "SubstrateUnderrunError"
    /\ input.octets = <<48, 130, 1>>

\* the whole call was made on an engine without indefinite-length support
CalledWithoutIndefinite ==
    pc \in {"raised", "returned"} /\ ~substrate.engine.supportIndefLength

\* the stream starts with a well-formed tag followed by the length octet 80
IndefiniteHeader ==
    /\ IdentifierOctets(input.octets) > 0
    /\ Len(input.octets) > IdentifierOctets(input.octets)
    /\ input.octets[IdentifierOctets(input.octets) + 1] = 128

\* C18: on an engine with supportIndefLength = False a TLV whose length
\* octet is 80 makes the call fail before any value decoder is invoked, no
\* call goes on with the indefinite length, and no call returns the EOO
\* sentinel, also when allowEoo is true and the next two octets are 00 00.
C18_IndefiniteUnsupported ==
    CalledWithoutIndefinite =>
        /\ result.kind # "eoo"
        /\ \A i \in 1..Len(log) : log[i].ret # "eoo" /\ log[i].length # -1
        /\ IndefiniteHeader =>
               /\ pc = "raised" /\ err = "PyAsn1Error"
               /\ Len(log) = 1 /\ log[1].vd = "none"

\* C18 witness: the call on 30 80 00 00 failed before a value decoder ran
C18_Witness ==
    /\ CalledWithoutIndefinite
    /\ input.octets = <<48, 128, 0, 0>>
    /\ pc = "raised" /\ err = "PyAsn1Error"
    /\ Len(log) = 1 /\ log[1].vd = "none"

\* with allowEoo the call on 00 00 did not return the EOO sentinel
EooNotReturned ==
    /\ CalledWithoutIndefinite /\ kwargs.allowEoo
    /\ input.octets = <<0, 0>>
    /\ result.kind # "eoo"

(***************************************************************************)
(* The explicit-tag fallback of the engine                                 *)
(***************************************************************************)
\* the states a call of the log went through
Went(e, state) == \E k \in 1..Len(e.trace) : e.trace[k] = state

\* the first tag of the TagSet a call accumulated: the tag it read itself
FirstTag(e) == e.tagSet[1].superTags[1]

\* the first tag is constructed and of a class other than universal
ExplicitLooking(e) ==
    /\ FirstTag(e).tagFormat = tagFormatConstructed
    /\ FirstTag(e).tagClass # tagClassUniversal

\* without a Spec the TagSet resolves by tagMap[tagSet], then by the tagMap
\* of its first tag
UnresolvedByTag(e) ==
    /\ tagMap(e.tagSet[1]) = NoDecoder
    /\ tagMap(TagSetFirst(e.tagSet[1])) = NoDecoder

\* the call failed at the error condition: no value decoder, no value
FailedUnresolved(e) ==
    /\ Went(e, stErrorCondition)
    /\ ~Went(e, stDecodeValue)
    /\ e.cls = "None" /\ e.vd = "none" /\ e.st = "raise" /\ e.ret = "None"

\* C19: a call whose TagSet resolves to no decoder takes the explicit-tag
\* decoder exactly when the first tag of the TagSet is constructed and not
\* universal, and otherwise fails with PyAsn1Error and returns no value; no
\* other call takes the explicit-tag decoder; without a Spec a TagSet is
\* unresolved exactly when tagMap knows neither it nor its first tag.
C19_ExplicitTagFallback ==
    /\ \A i \in 1..Len(log) :
          /\ Went(log[i], stTryAsExplicitTag) =>
                IF ExplicitLooking(log[i])
                THEN log[i].cls = "ExplicitTagDecoder" /\ Went(log[i], stDecodeValue)
                ELSE FailedUnresolved(log[i])
          /\ log[i].cls = "ExplicitTagDecoder" => Went(log[i], stTryAsExplicitTag)
          /\ Went(log[i], stGetValueDecoderByTag) =>
                (Went(log[i], stTryAsExplicitTag) <=> UnresolvedByTag(log[i]))
    /\ (log # <<>> /\ Went(log[1], stErrorCondition)) =>
          pc = "raised" /\ err = "PyAsn1Error" /\ result = None

\* the fallback is taken under a Spec and the value inside the tag is yielded
C19_Witness ==
    /\ log # <<>>
    /\ Went(log[1], stGetValueDecoderByAsn1Spec)
    /\ Went(log[1], stTryAsExplicitTag)
    /\ ExplicitLooking(log[1])
    /\ log[1].cls = "ExplicitTagDecoder"
    /\ yields = 1

\* a primitive context tag without a Spec resolves to nothing and fails
UnresolvedFails ==
    /\ input.name = "none"
    /\ input.tlv = Prim(128, <<170>>)
    /\ yields = 0
    /\ log # <<>>
    /\ Went(log[1], stTryAsExplicitTag)
    /\ FailedUnresolved(log[1])
    /\ pc = "raised"

\* a call inside an explicit tag accumulates two tags and fails on the inner
InnerUnresolvedFails ==
    \E i \in 1..Len(log) :
        /\ Went(log[i], stTryAsExplicitTag)
        /\ Len(log[i].tagSet[1].superTags) = 2
        /\ FailedUnresolved(log[i])

(***************************************************************************)
(* The explicit-tag wrapper                                                *)
(***************************************************************************)
\* call i of the log went into the explicit-tag decoder, which was not given
\* a substrateFun to hand its contents to
Wrapper(i) ==
    /\ log[i].cls = "ExplicitTagDecoder"
    /\ log[i].vd # "none"
    /\ log[i].ret # "bytes"

\* the call the wrapper makes for its value is the next of the log
InnerOf(i) == log[i + 1]

\* the wrapper's value is one TLV, decoded from the start of its contents
DecodesOneInner(i) ==
    /\ i < Len(log)
    /\ InnerOf(i).entry = log[i].origin
    /\ InnerOf(i).st = "ok"
    /\ InnerOf(i).ret \notin {"None", "eoo"}
    /\ log[i].ret = InnerOf(i).ret

\* the two octets of the stream at a position are 00 00
MarkerAt(pos) ==
    /\ pos + 2 <= Len(substrate.data)
    /\ substrate.data[pos + 1] = 0
    /\ substrate.data[pos + 2] = 0

\* C20: a wrapper that succeeds has decoded exactly one inner TLV as its
\* value; in definite form that TLV fills the declared length; in indefinite
\* form the two octets after it are 00 00 and are consumed; and when the inner
\* value of an indefinite wrapper is not followed by 00 00 the call fails
\* with PyAsn1Error.
C20_ExplicitTagWrapper ==
    /\ \A i \in 1..Len(log) :
          (Wrapper(i) /\ log[i].st = "ok") =>
              /\ DecodesOneInner(i)
              /\ IF log[i].length # -1
                 THEN InnerOf(i).after = log[i].origin + log[i].length
                 ELSE /\ MarkerAt(InnerOf(i).after)
                      /\ log[i].after = InnerOf(i).after + 2
    /\ (log # <<>> /\ Wrapper(1) /\ log[1].length = -1 /\ Len(log) > 1
        /\ InnerOf(1).st = "ok" /\ ~MarkerAt(InnerOf(1).after)) =>
          pc = "raised" /\ err = "PyAsn1Error"

\* the same for the wrappers that return a value: what is left out is the
\* wrapper whose contents meet the end of the stream, whose inner call
\* returns None, and which returns None itself
WrapperOfAValue ==
    /\ \A i \in 1..Len(log) :
          (Wrapper(i) /\ log[i].st = "ok" /\ log[i].ret # "None") =>
              /\ DecodesOneInner(i)
              /\ IF log[i].length # -1
                 THEN InnerOf(i).after = log[i].origin + log[i].length
                 ELSE /\ MarkerAt(InnerOf(i).after)
                      /\ log[i].after = InnerOf(i).after + 2
    /\ (log # <<>> /\ Wrapper(1) /\ log[1].length = -1 /\ Len(log) > 1
        /\ InnerOf(1).st = "ok" /\ InnerOf(1).ret # "None"
        /\ ~MarkerAt(InnerOf(1).after)) =>
          pc = "raised" /\ err = "PyAsn1Error"

\* a definite wrapper yields the one TLV that fills its length
DefiniteWrapperDecodes ==
    /\ log # <<>> /\ Wrapper(1) /\ log[1].length = 3 /\ log[1].st = "ok"
    /\ DecodesOneInner(1)
    /\ yields = 1

\* an indefinite wrapper yields its TLV and consumes the marker
IndefiniteWrapperDecodes ==
    /\ log # <<>> /\ Wrapper(1) /\ log[1].length = -1 /\ log[1].st = "ok"
    /\ DecodesOneInner(1)
    /\ log[1].after = InnerOf(1).after + 2
    /\ yields = 1

\* an indefinite wrapper whose value is followed by another TLV fails
IndefiniteWrapperUnclosed ==
    /\ log # <<>> /\ Wrapper(1) /\ log[1].length = -1 /\ Len(log) > 1
    /\ InnerOf(1).st = "ok" /\ InnerOf(1).ret # "None"
    /\ ~MarkerAt(InnerOf(1).after)
    /\ pc = "raised" /\ err = "PyAsn1Error"

\* a definite wrapper holding two TLVs fails
DefiniteWrapperOverfull ==
    /\ log # <<>> /\ Wrapper(1) /\ log[1].length = 6 /\ log[1].st = "raise"
    /\ Len(log) > 1 /\ InnerOf(1).st = "ok" /\ InnerOf(1).after = log[1].origin + 3
    /\ pc = "raised" /\ err = "PyAsn1Error"

(***************************************************************************)
(* The guess of the container without a Spec                               *)
(***************************************************************************)
\* the stream starts with a whole SEQUENCE or SET of primitive TLVs and the
\* run has no Spec
GuessedInput ==
    /\ input.name = "none"
    /\ input.tlv \in Containers
    /\ input.cut = 0

\* the inner TLVs of the first TLV carry more than one tag
SeveralInnerTags ==
    \E i, j \in 1..Len(input.tlv.kids) : input.tlv.kids[i].id # input.tlv.kids[j].id

\* the container the guess should choose
GuessedType ==
    IF input.tlv.id = 48
    THEN IF SeveralInnerTags THEN "Sequence" ELSE "SequenceOf"
    ELSE IF SeveralInnerTags THEN "Set" ELSE "SetOf"

\* the value holds the inner TLVs, each as decoded alone, in wire order
HoldsInnerInOrder(value) ==
    /\ Len(value.components) = Len(input.tlv.kids)
    /\ \A i \in 1..Len(input.tlv.kids) :
          Alike(value.components[i], DecodedAlone(input.tlv.kids[i]))

\* C21: without a Spec a SEQUENCE or SET TLV that is the whole stream is
\* yielded; whenever such a TLV is yielded it is a record (SEQUENCE, SET)
\* exactly when its inner TLVs carry more than one tag set and a SEQUENCE OF
\* or SET OF otherwise, none and one component included, and its components
\* are the inner TLVs at positions 0..n-1 in wire order.
C21_GuessedContainer ==
    /\ (GuessedInput /\ yields = 1 /\ pc = "running") =>
          /\ result.kind = "asn1"
          /\ result.typeId = GuessedType
          /\ HoldsInnerInOrder(result)
    /\ (GuessedInput /\ input.follower = <<>> /\ input.tail = <<>>
        /\ ~kwargs.allowEoo /\ pc # "running") => pc # "raised"

\* two INTEGERs in a SEQUENCE are guessed a SEQUENCE OF, in wire order
C21_Witness ==
    /\ GuessedInput /\ yields = 1 /\ pc = "running"
    /\ input.tlv = Cons(48, FALSE, <<Prim(2, <<5>>), Prim(2, <<5>>)>>)
    /\ result.typeId = "SequenceOf"
    /\ Len(result.components) = 2
    /\ result.components[1].val = <<5>>

\* an INTEGER and an OCTET STRING in a SET are guessed a SET
GuessedRecord ==
    /\ GuessedInput /\ yields = 1 /\ pc = "running"
    /\ input.tlv = Cons(49, TRUE, <<Prim(2, <<5>>), Prim(4, <<170>>)>>)
    /\ result.typeId = "Set"
    /\ Len(result.components) = 2
    /\ result.components[2].typeId = "OctetString"

\* an empty SEQUENCE is guessed a SEQUENCE OF
GuessedEmpty ==
    /\ GuessedInput /\ yields = 1 /\ pc = "running"
    /\ input.tlv.kids = <<>>
    /\ result.typeId = "SequenceOf"

(***************************************************************************)
(* The decoders of the primitive types                                     *)
(***************************************************************************)
\* a decoder was handed the whole content of a TLV of the universal id in
\* the primitive form
Handed(id) ==
    /\ pc \in {"decoded", "refused"}
    /\ input.id = id
    /\ input.form = tagFormatSimple
    /\ input.missing = 0

\* the engine was called on such a TLV
WholeTLV(id) ==
    /\ pc \in {"returned", "raised"}
    /\ input.id = id
    /\ input.form = tagFormatSimple
    /\ input.missing = 0

\* a sub-identifier starts at the first octet and after every octet below 128
SubIdStart(octets, i) == i = 1 \/ octets[i - 1] < 128

\* some sub-identifier starts with the octet 0x80
LedBy128(octets) ==
    \E i \in 1..Len(octets) : SubIdStart(octets, i) /\ octets[i] = 128

\* the content ends inside a sub-identifier of several octets
EndsInsideSubId(octets) == octets # <<>> /\ octets[Len(octets)] >= 128

OidUnderrun ==
    /\ WholeTLV(6)
    /\ input.octets = <<42, 134>>
    /\ pc = "raised" /\ err = "SubstrateUnderrunError"

\* 06 00 is refused
OidEmpty ==
    /\ WholeTLV(6)
    /\ input.octets = <<>>
    /\ pc = "raised" /\ err = "PyAsn1Error"

\* the content is a row of whole sub-identifiers, none led by 0x80
WellFormedOid(octets) ==
    /\ octets # <<>>
    /\ ~LedBy128(octets)
    /\ ~EndsInsideSubId(octets)

\* the positions where the sub-identifiers of a content start, and the
\* position where the one that starts at i ends
SubIdStarts(octets) == {i \in 1..Len(octets) : SubIdStart(octets, i)}
SubIdEnd(octets, i) == CHOOSE e \in i..Len(octets) :
                          /\ octets[e] < 128
                          /\ \A k \in i..(e - 1) : octets[k] >= 128

\* the sub-identifier that is the n-th of the content
NthStart(octets, n) ==
    CHOOSE i \in SubIdStarts(octets) :
        Cardinality({j \in SubIdStarts(octets) : j < i}) = n - 1

SubIdentifiers(octets) ==
    [n \in 1..Cardinality(SubIdStarts(octets)) |->
        Base128(SubSeq(octets, NthStart(octets, n),
                       SubIdEnd(octets, NthStart(octets, n))))]

\* the arcs of a row of sub-identifiers: the first one holds two arcs
ArcsOf(subs) ==
    (IF subs[1] <= 39 THEN <<0, subs[1]>>
     ELSE IF subs[1] <= 79 THEN <<1, subs[1] - 40>>
     ELSE <<2, subs[1] - 80>>) \o Tail(subs)

\* C23: a well-formed OBJECT IDENTIFIER content decodes to the arcs (0, X),
\* (1, X - 40) or (2, X - 80) of its first sub-identifier X, by the range of
\* X, followed by the other sub-identifiers, base 128, in order; the first
\* arc is 0, 1 or 2 and under 0 and 1 the second arc is at most 39.
C23_OidArcs ==
    (Handed(6) /\ WellFormedOid(input.octets)) =>
        /\ pc = "decoded"
        /\ result.kind = "asn1" /\ result.typeId = "ObjectIdentifier"
        /\ result.val = ArcsOf(SubIdentifiers(input.octets))
        /\ result.val[1] \in {0, 1, 2}
        /\ result.val[1] \in {0, 1} => result.val[2] \in 0..39

\* 06 06 2A 86 48 86 F7 0D is 1.2.840.113549
C23_Witness ==
    /\ Handed(6)
    /\ input.octets = <<42, 134, 72, 134, 247, 13>>
    /\ pc = "decoded"
    /\ result.val = <<1, 2, 840, 113549>>

\* a first sub-identifier of two octets: 06 02 81 00 is 2.48
OidLongFirstArc ==
    /\ WholeTLV(6)
    /\ input.octets = <<129, 0>>
    /\ pc = "returned"
    /\ result.val = <<2, 48>>

\* the two's-complement number of big-endian octets: the first octet counts
\* from -128 to 127, the others are its lower digits
TwosComplement(octets) ==
    IF octets = <<>> THEN 0
    ELSE (IF octets[1] >= 128 THEN octets[1] - 256 ELSE octets[1])
             * pow2(8 * (Len(octets) - 1))
         + fromBytesUnsigned(Tail(octets))

\* C24: the INTEGER decoder returns the two's-complement big-endian number of
\* the content octets, 0 for no content; the BOOLEAN decoder returns 0 when
\* that number is 0 and 1 otherwise; the engine called on the TLV returns the
\* same.
C24_IntegerAndBoolean ==
    /\ (Handed(2) \/ WholeTLV(2)) =>
          /\ pc \in {"decoded", "returned"}
          /\ result.kind = "asn1" /\ result.typeId = "Integer"
          /\ result.val = <<TwosComplement(input.octets)>>
    /\ (Handed(1) \/ WholeTLV(1)) =>
          /\ pc \in {"decoded", "returned"}
          /\ result.kind = "asn1" /\ result.typeId = "Boolean"
          /\ result.val = <<IF TwosComplement(input.octets) = 0 THEN 0 ELSE 1>>

\* 02 02 FF 80 is -128
C24_Witness ==
    /\ Handed(2)
    /\ input.octets = <<255, 128>>
    /\ pc = "decoded"
    /\ result.val = <<-128>>

\* 01 01 42 is TRUE, 01 01 00 is FALSE, 02 00 is 0
BooleanNonZero ==
    WholeTLV(1) /\ input.octets = <<66>> /\ pc = "returned" /\ result.val = <<1>>
BooleanZero ==
    WholeTLV(1) /\ input.octets = <<0>> /\ pc = "returned" /\ result.val = <<0>>
IntegerEmpty ==
    WholeTLV(2) /\ input.octets = <<>> /\ pc = "returned" /\ result.val = <<0>>

\* the engine was called on a TLV of the universal id in the primitive form,
\* whose last content octet may be missing from the stream
CalledOnTLV(id) ==
    /\ pc \in {"returned", "raised"}
    /\ input.id = id
    /\ input.form = tagFormatSimple

\* C25: the engine decodes a NULL TLV of declared length 0 to NULL, and fails
\* with PyAsn1Error, returning nothing, on every NULL TLV of a declared
\* length of 1 or more, the content octets being in the stream or not; the
\* NULL decoder refuses every content it is handed.
C25_NullLength ==
    /\ CalledOnTLV(5) =>
          IF input.length = 0
          THEN pc = "returned" /\ result.kind = "asn1" /\ result.typeId = "Null"
          ELSE pc = "raised" /\ err = "PyAsn1Error" /\ result = None
    /\ (Handed(5) /\ input.octets # <<>>) =>
          pc = "refused" /\ err = "PyAsn1Error" /\ result = None

\* 05 01 00 fails
C25_Witness ==
    /\ CalledOnTLV(5)
    /\ input.octets = <<0>> /\ input.missing = 0
    /\ pc = "raised" /\ err = "PyAsn1Error"

\* 05 01 with the stream ending there fails; 05 00 is NULL
NullContentMissing ==
    /\ CalledOnTLV(5)
    /\ input.octets = <<>> /\ input.missing = 1
    /\ pc = "raised" /\ err = "PyAsn1Error"
NullDecoded ==
    CalledOnTLV(5) /\ input.length = 0 /\ pc = "returned" /\ result.typeId = "Null"

\* bit i of a row of octets, the most significant bit of the first octet
\* being bit 1
BitAt(octets, i) == (octets[(i - 1) \div 8 + 1] \div pow2(7 - ((i - 1) % 8))) % 2

\* the bits of the content of a primitive BIT STRING: those of the octets
\* after the first, less as many at the end as the first octet tells
ContentBits(octets) ==
    [i \in 1..(8 * (Len(octets) - 1) - octets[1]) |-> BitAt(Tail(octets), i)]

\* the first octet tells of no more trailing bits than the content has
PaddingFits(octets) ==
    /\ octets # <<>>
    /\ octets[1] <= 7
    /\ Len(octets) > 1 \/ octets[1] = 0

BitsEmpty ==
    WholeTLV(3) /\ input.octets = <<0>> /\ pc = "returned" /\ result.val = <<>>
BitsNoContent ==
    Handed(3) /\ input.octets = <<>> /\ pc = "refused" /\ err = "PyAsn1Error"
BitsPaddingAboveSeven ==
    Handed(3) /\ input.octets = <<8, 0>> /\ pc = "refused" /\ err = "PyAsn1Error"

\* a decoder was handed a TLV of the tag form it does not decode: the
\* constructed decoders a primitive one, the decoders of BOOLEAN, INTEGER,
\* NULL, OBJECT IDENTIFIER, REAL and ENUMERATED a constructed one
HandedWrongForm ==
    /\ pc \in {"decoded", "refused", "decodedIndefinite", "refusedIndefinite"}
    /\ \/ input.id \in ConstructedIds /\ input.form = tagFormatSimple
       \/ input.id \in {1, 2, 5, 6, 9, 10} /\ input.form = tagFormatConstructed

\* C27: a decoder handed a TLV of the wrong tag form fails with PyAsn1Error
\* and returns nothing, with the cursor still at the first content octet and
\* no nested call made.
C27_WrongTagForm ==
    HandedWrongForm =>
        /\ pc \in {"refused", "refusedIndefinite"}
        /\ err = "PyAsn1Error"
        /\ result = None
        /\ tell(substrate) = 2
        /\ log = <<>>

\* a constructed INTEGER tag with content is refused by the IntegerDecoder
C27_Witness ==
    /\ HandedWrongForm
    /\ input.id = 2 /\ input.octets = <<1>> /\ input.missing = 0
    /\ pc = "refused" /\ err = "PyAsn1Error" /\ tell(substrate) = 2

\* a primitive SEQUENCE tag is refused by the SequenceOfDecoder
PrimitiveSequenceRefused ==
    /\ HandedWrongForm
    /\ input.id = 16 /\ input.decoder = Dec("SequenceOfDecoder")
    /\ input.octets = <<1, 1, 1>>
    /\ pc = "refused" /\ tell(substrate) = 2

\* the same with the indefinite length
PrimitiveSetRefusedIndefinite ==
    /\ HandedWrongForm
    /\ input.id = 17 /\ input.octets = <<0, 0>>
    /\ pc = "refusedIndefinite" /\ tell(substrate) = 2

\* the decode of a whole SEQUENCE { id, val ANY DEFINED BY id } has ended
GovernedRun ==
    /\ input.name = "Governed"
    /\ input.cut = 0
    /\ \/ yields = 1 /\ pc = "running"
       \/ yields = 0 /\ pc = "raised"

\* the governing value sent, and the octets of the governed field
GoverningValue == input.tlv.kids[1].content[1]
StoredOctets == Encode(input.tlv.kids[2])

\* the entries of a map for the governing value sent
EntriesFor(entries) == {i \in 1..Len(entries) : entries[i].gov = GoverningValue}
EntryFor(entries) ==
    entries[CHOOSE i \in EntriesFor(entries) : \A j \in EntriesFor(entries) : i <= j].obj
SchemaOpenTypes == asn1Spec.namedTypes[2].openType[1].typeMap

\* the Spec the claim names: the caller's entry, else the schema's
NamedOpenType ==
    IF EntriesFor(kwargs.openTypes) # {} THEN EntryFor(kwargs.openTypes)
    ELSE EntryFor(SchemaOpenTypes)

\* the stored octets decoded alone under that Spec
Redecoded ==
    decodeFun(BytesIO(StoredOctets, NewEngine), NamedOpenType, <<>>, <<>>, stDecodeTag,
              "None", kwargs)

\* C28: the governed field is re-decoded under the caller's entry for the
\* governing value when the caller's map has one, under the schema's entry
\* only when it has none, and with no entry in either map the field keeps
\* the raw octets and the decode succeeds.
C28_OpenTypeLookup ==
    GovernedRun =>
        IF EntriesFor(kwargs.openTypes) = {} /\ EntriesFor(SchemaOpenTypes) = {}
        THEN /\ yields = 1
             /\ result.components[2].typeId = "Any"
             /\ result.components[2].val = StoredOctets
        ELSE IF Redecoded.st = "ok"
        THEN /\ yields = 1
             /\ result.components[2].typeId = NamedOpenType.typeId
             /\ result.components[2].val = Redecoded.ret.val
        ELSE /\ pc = "raised"
             /\ err = Redecoded.err

\* both maps hold the governing value 5: INTEGER of the caller's map is used
C28_Witness ==
    /\ GovernedRun /\ yields = 1
    /\ kwargs.openTypes # <<>> /\ GoverningValue = 5
    /\ EntriesFor(SchemaOpenTypes) # {}
    /\ input.tlv.kids[2] = Prim(2, <<5>>)
    /\ result.components[2].typeId = "Integer"
    /\ result.components[2].val = <<5>>

\* only the schema's map holds 7: its OCTET STRING is used
SchemaEntryUsed ==
    /\ GovernedRun /\ yields = 1
    /\ kwargs.openTypes # <<>> /\ GoverningValue = 7
    /\ input.tlv.kids[2] = Prim(4, <<170>>)
    /\ result.components[2].typeId = "OctetString"
    /\ result.components[2].val = <<170>>

\* only the caller's map holds 6
CallerEntryOnly ==
    /\ GovernedRun /\ yields = 1
    /\ kwargs.openTypes # <<>> /\ GoverningValue = 6
    /\ result.components[2].typeId = "Integer"

\* neither map holds 8: the field keeps the octets of its TLV
NoEntryKeepsRaw ==
    /\ GovernedRun /\ yields = 1
    /\ kwargs.openTypes # <<>> /\ GoverningValue = 8
    /\ result.components[2].typeId = "Any"
    /\ result.components[2].val = <<4, 1, 170>>

\* the caller's entry does not fit the octets: the decode raises, though the
\* schema's entry would fit
CallerEntryMisfits ==
    /\ GovernedRun /\ pc = "raised"
    /\ kwargs.openTypes # <<>> /\ GoverningValue = 5
    /\ input.tlv.kids[2] = Prim(4, <<170>>)

\* the first call of a run on a whole TLV found no decoder for its TagSet,
\* the explicit-tag decoder included
UnresolvedRun ==
    /\ input.name = "raw"
    /\ input.cut = 0
    /\ \/ yields = 1 /\ pc = "running"
       \/ yields = 0 /\ pc = "raised"
    /\ log # <<>>
    /\ Went(log[1], stTryAsExplicitTag)
    /\ ~ExplicitLooking(log[1])

\* the ANY holding the octets of the whole first TLV was yielded and the
\* cursor is at the end of that TLV
RawTLVYielded ==
    /\ yields = 1
    /\ result.kind = "asn1"
    /\ result.typeId = "Any"
    /\ result.val = Encode(input.tlv)
    /\ tell(substrate) = Len(Encode(input.tlv))

\* C29: with defaultErrorState = stDumpRawValue a definite-length TLV that
\* resolves to no decoder is returned as the ANY holding the octets of the
\* whole TLV, the cursor at the end of the TLV; with the default
\* configuration the same input raises.
C29_DumpRawValue ==
    UnresolvedRun =>
        IF substrate.engine.defaultErrorState = "stDumpRawValue"
        THEN RawTLVYielded
        ELSE pc = "raised" /\ err = "PyAsn1Error" /\ result = None

\* the same without a Spec
DumpRawValueWithoutSpec == asn1Spec = None => C29_DumpRawValue

\* under a Spec the value returned is of the type of the Spec
DumpRawValueUnderSpec ==
    (UnresolvedRun /\ asn1Spec # None
        /\ substrate.engine.defaultErrorState = "stDumpRawValue") =>
        /\ yields = 1
        /\ result.typeId = asn1Spec.typeId
        /\ result.val = Encode(input.tlv)
        /\ tell(substrate) = Len(Encode(input.tlv))

\* [0] primitive without a Spec is yielded as ANY 80 01 AA
RawContextTag ==
    /\ UnresolvedRun /\ asn1Spec = None
    /\ substrate.engine.defaultErrorState = "stDumpRawValue"
    /\ input.tlv = Prim(128, <<170>>)
    /\ RawTLVYielded /\ result.val = <<128, 1, 170>>

\* the same TLV with the default configuration raises
RawContextTagRaises ==
    /\ UnresolvedRun /\ asn1Spec = None
    /\ substrate.engine.defaultErrorState = "stErrorCondition"
    /\ input.tlv = Prim(128, <<170>>)
    /\ pc = "raised"

\* INTEGER 5 under the Spec OCTET STRING is yielded as the OCTET STRING
\* 02 01 05
RawUnderOctetString ==
    /\ UnresolvedRun /\ asn1Spec = OctetString
    /\ substrate.engine.defaultErrorState = "stDumpRawValue"
    /\ input.tlv = Prim(2, <<5>>)
    /\ yields = 1 /\ result.typeId = "OctetString" /\ result.val = <<2, 1, 5>>

\* the octets of the stream from the position p on
OctetsFrom(p) == SubSeq(substrate.data, p + 1, Len(substrate.data))

\* a call of the log, made on the stream of the run, that did not find 00 00
\* at its entry
NoSentinelAt(e) ==
    SubSeq(substrate.data, e.entry + 1, Min(e.entry + 2, Len(substrate.data))) # <<0, 0>>

\* the call went past the preamble into the loop of the states
PastPreamble(e) == e.trace # <<>>

\* the runs without a Spec: every call of the log reads the stream of the run
CallsOnTheStream == input.name = "none" /\ log # <<>>

\* C30: with allowEoo, when the next two octets are not 00 00 the cursor
\* after the preamble (the position the call marks) is the position at
\* entry, however many octets remain; no call leaves the preamble before
\* its entry position.
C30_PreambleOnlyPeeks ==
    CallsOnTheStream =>
        /\ (kwargs.allowEoo /\ NoSentinelAt(log[1])) => log[1].mark = log[1].entry
        /\ \A i \in 1..Len(log) :
              /\ NoSentinelAt(log[i]) => log[i].mark = log[i].entry
              /\ PastPreamble(log[i]) => log[i].mark >= log[i].entry

\* the same of the calls entered with two octets or more to read
PreamblePeeksTwoOctets ==
    CallsOnTheStream =>
        \A i \in 1..Len(log) :
            (NoSentinelAt(log[i]) /\ Len(OctetsFrom(log[i].entry)) >= 2) =>
                log[i].mark = log[i].entry

\* a call with allowEoo entered at the end of the stream left the preamble
\* before its entry
PreambleAtEndOfStream ==
    /\ CallsOnTheStream /\ kwargs.allowEoo
    /\ log[1].entry = Len(substrate.data)
    /\ log[1].entry >= 2
    /\ PastPreamble(log[1])
    /\ log[1].mark = log[1].entry - 2

\* a call with allowEoo entered with one octet left
PreambleOneOctetLeft ==
    /\ CallsOnTheStream
    /\ \E i \in 1..Len(log) :
          /\ Len(OctetsFrom(log[i].entry)) = 1
          /\ PastPreamble(log[i])
          /\ log[i].mark = log[i].entry - 1

\* a call with allowEoo entered with a whole TLV ahead
PreambleBeforeTLV ==
    /\ CallsOnTheStream /\ kwargs.allowEoo
    /\ yields = 1
    /\ log[1].entry = 0 /\ log[1].mark = 0
    /\ Len(substrate.data) >= 2

(***************************************************************************)
(* The position the ANY decoder rewinds to                                 *)
(***************************************************************************)
RECURSIVE TLVStart(_)
\* the offset of the first identifier octet of the TLV the i-th call of the
\* log decodes: a call that read the header itself started there; a call
\* entered with the tag and the length already decoded decodes the TLV of
\* the call that made it, the one logged just before
TLVStart(i) ==
    IF Went(log[i], stDecodeTag)
    THEN log[i].origin - log[i].idOctets - log[i].lenOctets
    ELSE IF i = 1 THEN log[i].entry
    ELSE TLVStart(i - 1)

\* the call handed a TLV of definite length to AnyDecoder.valueDecoder
AnyValueCall(e) == e.cls = "AnyDecoder" /\ e.vd # "none" /\ e.length >= 0

\* the runs whose ANY carries no tag of its own: every TLV it decodes is
\* untagged for it
UntaggedAnyRun == input.name \in {"Any", "Choice"}

\* C31: whenever AnyDecoder.valueDecoder takes a TLV as untagged and
\* rewinds, _marked_position is the offset of the first identifier octet of
\* that TLV, also when the call was entered with the tag and the length
\* already decoded.
C31_MarkedPosition ==
    UntaggedAnyRun =>
        \A i \in 1..Len(log) : AnyValueCall(log[i]) => log[i].mark = TLVStart(i)

\* the same of the calls that read the header themselves
MarkedByTheCall ==
    UntaggedAnyRun =>
        \A i \in 1..Len(log) :
            (AnyValueCall(log[i]) /\ Went(log[i], stDecodeTag)) =>
                log[i].mark = TLVStart(i)

\* an ANY decoded directly: the mark is the start of its TLV
AnyMarkedAtStart ==
    /\ input.name = "Any" /\ yields = 1 /\ log # <<>>
    /\ AnyValueCall(log[1])
    /\ log[1].mark = 0 /\ log[1].origin = 2

\* the ANY alternative of an untagged CHOICE: the mark is past the header
ChoiceAnyMarkedPastHeader ==
    /\ input.name = "Choice" /\ Len(log) >= 2
    /\ AnyValueCall(log[2]) /\ ~Went(log[2], stDecodeTag)
    /\ TLVStart(2) = 0
    /\ log[2].mark = 2

(***************************************************************************)
(* The TagSet accumulated at stDecodeTag                                   *)
(***************************************************************************)
\* the call read a tag
ReadATag(e) == Went(e, stDecodeTag) /\ e.idOctets > 0

\* the tags the caller supplied
GivenTags(e) == IF e.given = <<>> THEN <<>> ELSE e.given[1].superTags

\* the TagSet of the call is that of the tag it read alone
SingleTagSet(e) == Len(e.tagSet[1].superTags) = 1 /\ e.tagSet[1].baseTag = <<>>

\* the TagSet of the call is the caller's with the tag read put before it
PrependedTagSet(e) ==
    /\ e.given # <<>>
    /\ Tail(e.tagSet[1].superTags) = e.given[1].superTags
    /\ e.tagSet[1].baseTag = e.given[1].baseTag

\* the statement by the schema: the single-tag set when the caller passed no
\* schema, the caller's TagSet with the tag prepended otherwise (the tag
\* alone when the caller passed no TagSet)
TagSetBySchema ==
    \A i \in 1..Len(log) :
        ReadATag(log[i]) =>
            IF ~log[i].withSpec THEN SingleTagSet(log[i])
            ELSE IF log[i].given = <<>> THEN SingleTagSet(log[i])
            ELSE PrependedTagSet(log[i])

\* C32: at stDecodeTag the accumulated TagSet is the single-tag set of the
\* tag read when the caller passed no TagSet, and otherwise the caller's
\* TagSet with the tag read prepended, whether or not a schema was passed.
C32_TagSetAccumulation ==
    \A i \in 1..Len(log) :
        ReadATag(log[i]) =>
            IF log[i].given = <<>> THEN SingleTagSet(log[i])
            ELSE PrependedTagSet(log[i])

\* without a schema the TLV inside an explicit-tag wrapper has the TagSet of
\* its own tag and the wrapper's
C32_Witness ==
    /\ input.name = "none" /\ yields = 1 /\ Len(log) >= 2
    /\ log[1].cls = "ExplicitTagDecoder"
    /\ ReadATag(log[2]) /\ ~log[2].withSpec
    /\ log[2].given # <<>>
    /\ Len(log[2].tagSet[1].superTags) = 2
    /\ PrependedTagSet(log[2])

\* under a schema the same accumulation
PrependedUnderSchema ==
    /\ input.name = "IntegerExplicit" /\ yields = 1 /\ Len(log) >= 2
    /\ ReadATag(log[2]) /\ log[2].withSpec
    /\ PrependedTagSet(log[2])

\* a call without TagSet under a schema has the single-tag set
SingleUnderSchema ==
    /\ input.name = "Sequence" /\ yields = 1 /\ log # <<>>
    /\ ReadATag(log[1]) /\ log[1].withSpec /\ log[1].given = <<>>
    /\ SingleTagSet(log[1])

(***************************************************************************)
(* The constructed BIT STRING of indefinite length                         *)
(***************************************************************************)
\* the first call of a run decoded a constructed BIT STRING of indefinite
\* length, without a Spec or as BIT STRING
IndefiniteBitsRun ==
    /\ input.name \in {"none", "BitString"}
    /\ input.tlv \in ConsBitStrings /\ input.tlv.indef
    /\ \/ yields = 1 /\ pc = "running"
       \/ yields = 0 /\ pc = "raised"

\* the stream holds the first TLV whole, its EOO marker included
FirstTLVWhole == Len(substrate.data) >= Len(Encode(input.tlv))

\* C33: the constructed BIT STRING of indefinite length fails with the
\* substrate underrun of 'No EOO seen' only when the stream ends before the
\* EOO marker; when the marker is read the value of the joined segments is
\* returned, the empty bit string when there is no segment.
C33_NoEooSeen ==
    IndefiniteBitsRun =>
        /\ (pc = "raised" /\ err = "SubstrateUnderrunError") => ~FirstTLVWhole
        /\ FirstTLVWhole =>
              /\ yields = 1
              /\ result.typeId = "BitString"
              /\ result.val = JoinedBits(input.tlv.kids)
              /\ tell(substrate) = Len(Encode(input.tlv))

\* 23 80 00 00: no segment, the empty bit string
C33_Witness ==
    /\ IndefiniteBitsRun /\ FirstTLVWhole
    /\ input.tlv.kids = <<>>
    /\ substrate.data = <<35, 128, 0, 0>>
    /\ yields = 1 /\ result.typeId = "BitString" /\ result.val = <<>>

\* the marker read after two segments
BitsBeforeMarker ==
    /\ IndefiniteBitsRun /\ FirstTLVWhole
    /\ Len(input.tlv.kids) = 2
    /\ yields = 1 /\ result.val # <<>>

\* the stream ends after the segments: substrate underrun
BitsWithoutMarker ==
    /\ IndefiniteBitsRun /\ ~FirstTLVWhole
    /\ substrate.data = <<35, 128, 3, 2, 0, 170>>
    /\ pc = "raised" /\ err = "SubstrateUnderrunError"

(***************************************************************************)
(* What enables the resolution of open types                               *)
(***************************************************************************)
\* the governed SEQUENCE decoded with decodeOpenTypes false or absent
WithoutDecodeOpenTypes == GovernedRun /\ ~kwargs.decodeOpenTypes

\* the same octets decoded with neither decodeOpenTypes nor a caller's map
NeitherOption ==
    decodeFun(BytesIO(substrate.data, NewEngine), asn1Spec, <<>>, <<>>, stDecodeTag,
              "None", NoOptions)

\* C34: with decodeOpenTypes false or absent the open-type field of a
\* decoded SEQUENCE keeps its raw undecoded value, whatever openTypes map
\* the caller supplied.
C34_OnlyWhenEnabled ==
    WithoutDecodeOpenTypes =>
        /\ yields = 1
        /\ result.components[2].typeId = "Any"
        /\ result.components[2].val = StoredOctets

\* if openTypes or options.get('decodeOpenTypes', False): with neither, the
\* field keeps the octets of its TLV
RawWithNeitherOption ==
    GovernedRun =>
        /\ NeitherOption.st = "ok"
        /\ NeitherOption.ret.components[2].typeId = "Any"
        /\ NeitherOption.ret.components[2].val = StoredOctets

\* decodeOpenTypes absent, the caller's map alone made the field an INTEGER
CallerMapAloneResolves ==
    /\ WithoutDecodeOpenTypes /\ yields = 1
    /\ GoverningValue = 6
    /\ result.components[2].typeId = "Integer"
    /\ NeitherOption.ret.components[2].typeId = "Any"

(***************************************************************************)
(* The substrateFun of the caller                                          *)
(***************************************************************************)
\* a value decoder was called with the caller's function
HookedCall == input.name = "hooked" /\ pc # "entry"

\* the decoder returned what the function returned, for the content of the
\* TLV, and nothing of the content was parsed
HookResultReturned ==
    /\ pc = "hooked"
    /\ result.kind = "Hooked"
    /\ result.pos + result.length = 2 + input.length
    /\ tell(substrate) = result.pos

\* the classes whose valueDecoder tests substrateFun
HonouringDecoders ==
    {"BitStringDecoder", "OctetStringDecoder", "SequenceOrSequenceOfDecoder",
     "SetOrSetOfDecoder", "SequenceDecoder", "SetOfDecoder", "ChoiceDecoder",
     "AnyDecoder", "ExplicitTagDecoder"}

\* C35: when a substrateFun is supplied, the value decoder chosen for the
\* TLV hands it the prototype, the substrate and the length and returns its
\* result instead of parsing the content, for every decoder class.
C35_SubstrateFunHook == HookedCall => HookResultReturned

\* the classes that test substrateFun return its result
HookHonoured ==
    (HookedCall /\ input.decoder.cls \in HonouringDecoders) =>
        /\ HookResultReturned
        /\ input.decoder.cls # "AnyDecoder" =>
              result.pos = 2 /\ result.length = input.length

\* INTEGER, BOOLEAN, NULL, OBJECT IDENTIFIER and REAL never call it
HookIgnored ==
    (HookedCall /\ input.decoder.cls \notin HonouringDecoders) =>
        \/ pc = "hookRaised"
        \/ pc = "hooked" /\ result.kind # "Hooked"

\* 02 01 2A handed to the IntegerDecoder with the function: INTEGER 42
IntegerParsedDespiteHook ==
    /\ HookedCall /\ input.decoder.cls = "IntegerDecoder"
    /\ input.octets = <<42>>
    /\ pc = "hooked" /\ result.kind # "Hooked"
    /\ result.typeId = "Integer" /\ result.val = <<42>>
    /\ tell(substrate) = 3

\* 04 01 2A handed to the OctetStringDecoder with the function
OctetStringHooked ==
    /\ HookedCall /\ input.decoder.cls = "OctetStringDecoder"
    /\ input.octets = <<42>>
    /\ HookResultReturned /\ result.length = 1

(***************************************************************************)
(* The Tag and TagSet caches                                               *)
(***************************************************************************)
\* the Tag the identifier octets encode, decoded afresh
FreshTag(octets) ==
    Tag((octets[1] \div 64) * 64, ((octets[1] \div 32) % 2) * 32,
        IF octets[1] % 32 # 31 THEN octets[1] % 32
        ELSE Base128(SubSeq(octets, 2, IdentifierOctets(octets))))

\* the TagSet of the fresh Tag and the TagSet passed
FreshTagSet(octets, given) ==
    IF given = <<>> THEN TagSet(<<>>, <<FreshTag(octets)>>)
    ELSE TagSetRadd(FreshTag(octets), given[1])

\* the identifier octets the engine read last
TagOctetsRead == input.streams[yields]

\* each cache holds short tags only, each under its own first octet
CachesHoldShortTags ==
    /\ \A item \in substrate.engine.tagCache :
          /\ item.key % 32 # 31
          /\ item.value = FreshTag(<<item.key>>)
    /\ \A item \in substrate.engine.tagSetCache :
          /\ item.key % 32 # 31
          /\ item.value = TagSet(<<>>, <<FreshTag(<<item.key>>)>>)

\* C36: the tag and TagSet caches are transparent: the Tag and TagSet of a
\* call are those decoded afresh from the octets whatever the caches hold;
\* the caches hold only first octets whose low five bits are not 0x1F, and
\* the entry of an octet is the Tag, or the TagSet, decoded afresh from it.
C36_CacheTransparency ==
    /\ CachesHoldShortTags
    /\ (input.name = "tags" /\ yields > 0) =>
          IF IdentifierOctets(TagOctetsRead) = 0
          THEN pc = "noTag" /\ err = "SubstrateUnderrunError"
          ELSE /\ pc = "tagged"
               /\ tell(substrate) = IdentifierOctets(TagOctetsRead)
               /\ result.tagSet = <<FreshTagSet(TagOctetsRead, result.given)>>

\* the third INTEGER tag in a row, read with both caches holding it
C36_Witness ==
    /\ input.name = "tags" /\ yields = 3 /\ pc = "tagged"
    /\ input.streams = <<<<2>>, <<2>>, <<2>>>>
    /\ result.given = <<>>
    /\ cacheGet(substrate.engine.tagCache, 2) = {Tag(0, 0, 2)}
    /\ cacheGet(substrate.engine.tagSetCache, 2) = {TagSet(<<>>, <<Tag(0, 0, 2)>>)}
    /\ result.tagSet = <<TagSet(<<>>, <<Tag(0, 0, 2)>>)>>

\* a long tag after another of the same first octet: neither is cached
LongTagsNotCached ==
    /\ input.name = "tags" /\ yields = 2 /\ pc = "tagged"
    /\ input.streams = <<<<31, 5>>, <<31, 129, 2>>>>
    /\ substrate.engine.tagCache = {}
    /\ result.tagSet[1].superTags[1].tagId = 130

\* a tag cached at the top level, then read under a wrapper: the Tag cache
\* is used and the TagSet cache is not
CachedTagUnderWrapper ==
    /\ input.name = "tags" /\ yields = 2 /\ pc = "tagged"
    /\ input.streams = <<<<48>>, <<48>>>>
    /\ result.given = <<WrapperTagSet>>
    /\ cacheGet(substrate.engine.tagSetCache, 48) # {}
    /\ Len(result.tagSet[1].superTags) = 2

(***************************************************************************)
(* The order of the states of a call                                       *)
(***************************************************************************)
\* the place of a state in the order the claim gives; the two lookups share
\* a place, and stErrorCondition stands where stDumpRawValue does
StatePlace(state) ==
    CASE state = stDecodeTag -> 1
      [] state = stDecodeLength -> 2
      [] state = stGetValueDecoder -> 3
      [] state \in {stGetValueDecoderByTag, stGetValueDecoderByAsn1Spec} -> 4
      [] state = stTryAsExplicitTag -> 5
      [] state \in {stDumpRawValue, stErrorCondition} -> 6
      [] state = stDecodeValue -> 7
      [] OTHER -> 8

\* the states of a call in the order of the claim, none entered twice; a
\* call of the ChoiceDecoder for the same TLV starts at stGetValueDecoder
MovedForward(e) ==
    /\ \A i, j \in 1..Len(e.trace) : i < j => StatePlace(e.trace[i]) < StatePlace(e.trace[j])
    /\ \A i \in 1..Len(e.trace) :
          /\ e.trace[i] = stTryAsExplicitTag =>
                \E j \in 1..Len(e.trace) :
                    e.trace[j] \in {stGetValueDecoderByTag, stGetValueDecoderByAsn1Spec}
          /\ e.trace[i] = stDumpRawValue => Went(e, stTryAsExplicitTag)

\* stDecodeValue entered with a decoder, chosen by a lookup, as explicit
\* tag or as raw value of this call
DecoderChosen(e) ==
    Went(e, stDecodeValue) =>
        /\ e.cls # "None"
        /\ e.vd # "none"
        /\ \/ Went(e, stGetValueDecoderByTag)
           \/ Went(e, stGetValueDecoderByAsn1Spec)

\* the call raised, or went through stDecodeValue to stStop
RaisedOrStopped(e) ==
    \/ e.st = "raise"
    \/ e.st = "ok" /\ Went(e, stDecodeValue) /\ e.vd = "ok"

\* the call left from stDecodeTag at the end of the stream, or from the
\* preamble with the end-of-octets sentinel
LeftEarly(e) ==
    \/ e.st = "ok" /\ e.ret = "None" /\ e.trace = <<stDecodeTag>> /\ e.idOctets = 0
    \/ e.st = "ok" /\ e.ret = "eoo" /\ e.trace = <<>>

LeftFromDecodeTag ==
    \E k \in 1..Len(log) :
        log[k].st = "ok" /\ log[k].ret = "None" /\ log[k].trace = <<stDecodeTag>>

\* the call of the ChoiceDecoder for the TLV it was handed started at
\* stGetValueDecoder
EnteredAtGetValueDecoder ==
    \E k \in 1..Len(log) :
        /\ log[k].trace = <<stGetValueDecoder, stGetValueDecoderByAsn1Spec, stDecodeValue>>
        /\ log[k].st = "ok"

\* a call returned the sentinel before the first state
LeftFromPreamble ==
    \E k \in 1..Len(log) :
        log[k].st = "ok" /\ log[k].ret = "eoo" /\ log[k].trace = <<>>

\* a call raised from stErrorCondition
RaisedFromErrorCondition ==
    \E k \in 1..Len(log) :
        /\ log[k].st = "raise"
        /\ log[k].trace[Len(log[k].trace)] = stErrorCondition
        /\ Went(log[k], stTryAsExplicitTag)

(***************************************************************************)
(* When a call returns None                                                *)
(***************************************************************************)
\* a call of the log returned None
ReturnedNone(e) == e.st = "ok" /\ e.ret = "None"

\* the call was entered at the end of the stream and read nothing
AtEndUntouched(e) ==
    /\ e.entry = Len(substrate.data)
    /\ e.after = e.entry
    /\ e.idOctets = 0 /\ e.lenOctets = 0

\* C38: a call returns None only when the cursor is at the end of the
\* stream at entry, and then it has consumed no octet; a top-level call
\* that consumed an octet returns a value or raises, so the generator never
\* stops after a partially consumed TLV or one of empty content.
C38_NoneOnlyAtEnd ==
    /\ \A k \in 1..Len(log) : ReturnedNone(log[k]) => AtEndUntouched(log[k])
    /\ (pc = "done" /\ log # <<>>) =>
          /\ log[1].entry = Len(substrate.data)
          /\ tell(substrate) = log[1].entry

\* the calls that return None after reading are those of an explicit-tag
\* wrapper of no content at the end of the stream
NoneOnlyThroughEmptyWrapper ==
    \A k \in 1..Len(log) :
        (ReturnedNone(log[k]) /\ ~AtEndUntouched(log[k])) =>
            /\ log[k].cls = "ExplicitTagDecoder"
            /\ log[k].after = Len(substrate.data)
            /\ log[k].after = log[k].origin

\* A0 00 without a Spec: the generator stops behind the two octets, nothing
\* yielded and nothing raised
StoppedAfterEmptyWrapper ==
    /\ pc = "done" /\ yields = 0
    /\ substrate.data = <<160, 0>>
    /\ tell(substrate) = 2
    /\ log[1].entry = 0 /\ ReturnedNone(log[1])

\* the generator stops at the end of a stream it decoded
StoppedAtEnd ==
    /\ pc = "done" /\ yields = 1
    /\ substrate.data = <<2, 1, 5>>
    /\ log[1].entry = 3 /\ ReturnedNone(log[1]) /\ AtEndUntouched(log[1])

(***************************************************************************)
(* A component sent twice                                                  *)
(***************************************************************************)
\* the first call of a run decoded a whole SEQUENCE or SET under a Spec of
\* named types
RecordRun ==
    /\ input.name \in {"Set", "Sequence", "PlainSequence", "SingleSequence",
                       "OptionalSequence"}
    /\ input.tlv \in Containers
    /\ input.tlv.id = (IF input.name = "Set" THEN 49 ELSE 48)
    /\ input.cut = 0
    /\ \/ yields = 1 /\ pc = "running"
       \/ yields = 0 /\ pc = "raised"

\* two inner TLVs carry the same tag, so the second resolves to the
\* position of the first if it resolves at all
TagSentTwice ==
    \E i, j \in 1..Len(input.tlv.kids) : i < j /\ input.tlv.kids[i].id = input.tlv.kids[j].id

\* C39: in a decode of a SEQUENCE or SET with named types each position is
\* assigned at most once: a second inner TLV that resolves to a position
\* already seen makes the decode fail.
C39_AssignedOnce == (RecordRun /\ TagSentTwice) => pc = "raised"

\* the SEQUENCE decoders refuse the second TLV: no later position takes it
SequenceAssignedOnce ==
    (RecordRun /\ TagSentTwice /\ input.name # "Set") => pc = "raised"

\* SET { a INTEGER, b OCTET STRING OPTIONAL } sent INTEGER 5 and INTEGER 1
SetSentTwice ==
    decodeFun(BytesIO(<<49, 6, 2, 1, 5, 2, 1, 1>>, NewEngine), SetSpec, <<>>, <<>>,
              stDecodeTag, "None", NoOptions)

\* 31 06 02 01 05 02 01 05 decoded as the SET: a value is yielded; and with
\* INTEGER 1 as the second TLV the component a is 1, the 5 overwritten
SetAssignedTwice ==
    /\ RecordRun /\ input.name = "Set" /\ ~input.tlv.indef
    /\ input.tlv.kids = <<Prim(2, <<5>>), Prim(2, <<5>>)>>
    /\ yields = 1 /\ pc = "running"
    /\ result.components[1].val = <<5>>
    /\ SetSentTwice.st = "ok"
    /\ SetSentTwice.ret.components[1].val = <<1>>

\* the same tags sent as SEQUENCE { a INTEGER, b OCTET STRING OPTIONAL }
SequenceRefusesSecond ==
    /\ RecordRun /\ input.name = "Sequence"
    /\ input.tlv.kids = <<Prim(2, <<5>>), Prim(2, <<5>>)>>
    /\ pc = "raised"

(***************************************************************************)
(* The loops advance                                                       *)
(***************************************************************************)
\* a call for the next TLV returned without an octet consumed (a call of the
\* ChoiceDecoder for the TLV it was handed is entered behind the header and
\* consumes nothing of an empty content)
Stalled(e) ==
    /\ e.st = "ok" /\ e.after = e.entry
    /\ e.trace # <<>> /\ e.trace[1] = stDecodeTag

\* the stream of the run ends inside the first TLV
StreamEndsEarly == Len(substrate.data) < Len(Encode(input.tlv))

\* C40: every call on a finite stream ends, returning or raising: each
\* iteration of a component loop advances the cursor or ends the loop.  A
\* nested call that returns with nothing consumed, as at the end of a
\* stream shorter than the declared length, is followed by no further call
\* at its position, and a call entered once the log began lies ahead of the
\* calls that consumed nothing.
C40_LoopsAdvance ==
    /\ pc \in {"running", "raised", "done"}
    /\ \A k, m \in 1..Len(log) :
          (k < m /\ Stalled(log[k])) => log[m].entry # log[k].entry
    /\ \A k \in 1..Len(log) :
          Stalled(log[k]) => log[k].ret = "None" /\ log[k].trace = <<stDecodeTag>>

\* the preamble of the call moved the cursor back before the position the
\* call was entered at
SoughtBack(e) == e.trace # <<>> /\ e.mark < e.entry

\* the same of the steps in which no preamble moved the cursor back
LoopsAdvanceUnlessSoughtBack ==
    (\A k \in 1..Len(log) : ~SoughtBack(log[k])) =>
        /\ \A k, m \in 1..Len(log) :
              (k < m /\ Stalled(log[k])) => log[m].entry # log[k].entry
        /\ \A k \in 1..Len(log) :
              Stalled(log[k]) => log[k].ret = "None" /\ log[k].trace = <<stDecodeTag>>

\* the recursion limit is exhausted only behind an explicit-tag wrapper of
\* indefinite length that the stream ends in
RecursionOnlyBehindWrapper ==
    err = "RecursionError" =>
        /\ pc = "raised"
        /\ \E k \in 1..Len(log) :
              /\ log[k].cls = "ExplicitTagDecoder" /\ log[k].length = -1
              /\ log[k].origin = Len(substrate.data)

\* A0 80: the call for the end-of-octets marker, entered at the end of the
\* stream, seeks back to 0 and decodes the wrapper again, and so on until
\* the recursion limit
WrapperDecodedAgain ==
    /\ substrate.data = <<160, 128>>
    /\ pc = "raised" /\ err = "RecursionError"
    /\ Len(log) >= 4
    /\ Stalled(log[2]) /\ log[2].entry = 2
    /\ log[3].entry = 2 /\ log[3].cls = "ExplicitTagDecoder"
    /\ SoughtBack(log[3]) /\ log[3].mark = 0
    /\ log[3].trace[1] = stDecodeTag /\ log[3].idOctets = 1

\* 30 05 02 01 05 as SEQUENCE OF INTEGER: the second nested call returns
\* None at the end of the stream and the loop ends, the call raising
C40_Witness ==
    /\ input.name = "SequenceOf" /\ StreamEndsEarly
    /\ substrate.data = <<48, 5, 2, 1, 5>>
    /\ pc = "raised" /\ yields = 0
    /\ Len(log) = 3
    /\ Stalled(log[3]) /\ log[3].entry = 5

\* 24 03 04 01 as OCTET STRING: the segment is cut short
SegmentCutShort ==
    /\ input.name = "OctetString" /\ StreamEndsEarly
    /\ substrate.data = <<36, 3, 4, 1>>
    /\ pc = "raised"

\* 24 05 04 01 AA as OCTET STRING: header += None ends the loop
SegmentLoopEndsOnNone ==
    /\ input.name = "OctetString" /\ StreamEndsEarly
    /\ substrate.data = <<36, 5, 4, 1, 170>>
    /\ pc = "raised" /\ err = "TypeError"
    /\ Stalled(log[Len(log)])

\* 30 80 02 01 05 as SEQUENCE OF INTEGER: the indefinite loop ends at the end
\* of the stream without a further call
IndefiniteLoopEndsAtEnd ==
    /\ input.name = "SequenceOf" /\ StreamEndsEarly
    /\ substrate.data = <<48, 128, 2, 1, 5>>
    /\ pc = "raised" /\ err = "SubstrateUnderrunError"
    /\ \A k \in 1..Len(log) : ~Stalled(log[k])

====
